---- MODULE Spec2Model ----
(***************************************************************************)
(* A model of the execution paths of the trading agent: the profitability  *)
(* checks, the execute_* operations of the strategy modules and the        *)
(* *_with_retry loops around them, together with the chain client they     *)
(* talk to.                                                                *)
(*                                                                         *)
(* One operation runs at a time.  pc is its position:                      *)
(*   "idle"   nothing is running                                           *)
(*   "exec"   inside execute_*, awaiting contract call number `step`        *)
(*   "sleep"  in the Err arm of a retry loop, awaiting                     *)
(*            sleep(Duration::from_secs(delay))                            *)
(*   "done"   the operation has returned (or panicked); result says how    *)
(*                                                                         *)
(* Encoding of the backoff delay.  In the source `delay` is a u64 that     *)
(* starts at 1 and is only ever doubled, so its value is a power of two or *)
(* -- after a wrapping overflow -- zero.  TLC's integers are 32 bits wide, *)
(* so the variable delay holds the base-2 logarithm of the value and       *)
(* DelayZero stands for the value 0.  delay = 0 is one second, delay = 63  *)
(* is 2^63 seconds, and doubling 2^63 does not fit DelayBits = 64 bits.    *)
(***************************************************************************)
EXTENDS Integers, Sequences, FiniteSets, TLC

VARIABLES
    pc,           \* control position of the running operation
    op,           \* the running operation
    max_retries,  \* parameter max_retries: u8 of *_with_retry
    attempts,     \* local `attempts` (u8) of the retry loop
    delay,        \* local `delay` (u64) of the retry loop, as its log2
    loaned,       \* parameter loaned_amount / flashloan_amount
    step,         \* index of the next contract call inside execute_*
    amount,       \* input amount of the next trade (arbitrage legs)
    log,          \* submissions the chain client received in this attempt
    started,      \* number of attempts started in this run
    sleeps,       \* the delays slept so far in this run, oldest first
    lastErr,      \* how the last failed attempt failed
    now,          \* seconds elapsed since the run began
    deadline,     \* `deadline` handed to the router in the current attempt
    planDeadline, \* `deadline` computed in the first attempt of the run
    result,       \* what the operation returned
    evalModule,   \* module whose is_profitable was evaluated last
    gain,         \* first argument of that evaluation
    cost,         \* second argument of that evaluation
    accepted,     \* its result
    subject,      \* the observed transaction a front-run or sandwich is built on
    gas_price,    \* `gas_price` of the current attempt of execute_frontrunning
    \* the scan loops
    scanner,      \* the scan loop that is running
    spc,          \* its position
    polls,        \* reads of the chain it has started
    lastPoll,     \* how its last read came back
    lastExec,     \* how the last execution it awaited came back
    candidates,   \* candidates it has detected
    candGain,     \* first argument of is_profitable for the last candidate
    candCost,     \* second argument of is_profitable for the last candidate
    mempool,      \* the pending transactions not yet looked at (monitor_mempool)
    tasks,        \* the tasks scan_for_opportunities spawned in this round
    chain,        \* submissions of this round as the chain client received them
    acceptedOrder,\* the tasks of this round in the order is_profitable accepted them
    frontrunCalls,\* calls of execute_frontrunning so far, per transaction hash
    \* main in bot mode "multi" / "all"
    mpc,          \* position of main
    bot_mode,     \* global_config["bot_mode"]
    strategies,   \* global_config["strategies"]: the "enabled" entry of each name
    enabled,      \* the strategies whose "enabled" flag is true
    pendingRun,   \* the enabled strategies the for loop has not reached yet
    ran,          \* the strategies the for loop has run
    failed,       \* the strategy whose execution returned an error, or "none"
    configOk,     \* the strategies whose configuration file loads and parses
    running,      \* the strategy main is awaiting, or "none"
    \* the dashboard
    dpc,          \* position of each handler call and spawned task
    dash_status,  \* the String behind DashboardState.status
    dash_profit,  \* the f64 behind DashboardState.profit
    status_lock,  \* the call that holds the guard of `status`, or "none"
    profit_lock,  \* the call that holds the guard of `profit`, or "none"
    read_profit,  \* per call, the value `*profit_value += 100.0` has read
    completed,    \* calls of run_strategy that have returned
    sent,         \* the last message handle_websocket has built
    \* the notifications of the monitoring module
    npc,          \* position of the notification call
    channel,      \* "email" or "sms"
    nattempt,     \* turns of its `for _ in 0..3` loop begun so far
    nresult,      \* what the notification call returned
    \* the pure functions
    callee,       \* the function that is applied
    args,         \* its arguments
    ret           \* what it returned

execVars == <<pc, op, max_retries, attempts, delay, loaned, step, amount, log,
              started, sleeps, lastErr, now, deadline, planDeadline, result,
              evalModule, gain, cost, accepted, subject, gas_price>>

scanVars == <<scanner, spc, polls, lastPoll, lastExec, candidates, candGain,
              candCost, mempool, tasks, chain, acceptedOrder, frontrunCalls>>

mainVars == <<mpc, bot_mode, strategies, enabled, pendingRun, ran, failed, configOk,
              running>>

dashVars == <<dpc, dash_status, dash_profit, status_lock, profit_lock, read_profit,
              completed, sent>>

notifyVars == <<npc, channel, nattempt, nresult>>

calcVars == <<callee, args, ret>>

vars == <<execVars, scanVars, mainVars, dashVars, notifyVars, calcVars>>

retryVars == <<max_retries, attempts, delay, sleeps>>
evalVars == <<evalModule, gain, cost, accepted>>

----------------------------------------------------------------------------
(* Bounds of the model *)

\* max_retries is drawn from 0..MaxRetries and from the values around the
\* width of the delay (see RetryInputs).
MaxRetries == 4

\* The clock stops counting at ClockCap seconds.
ClockCap == 1200

----------------------------------------------------------------------------
(* Constants of the program *)

\* U256::from(300000), the "example gas fees" of the arbitrage module.
GAS_FEES == 300000

\* Utc::now().timestamp() + 600 in execute_sandwich_attack.
DeadlineWindow == 600

\* max_retries: u8, and attempts is compared with it, so it is a u8 too.
U8Max == 255

\* delay is passed to Duration::from_secs(u64), so it is a u64.
DelayBits == 64

\* The encoding of the delay value 0.
DelayZero == -1

NoDeadline == -1

\* U256::from(20000000000u64), "Example gas price (20 Gwei)", in Gwei.
GasPriceGwei == 20

\* No gas price is set: Options::default().
NoGasPrice == 0

\* The operations that are built on an observed pending transaction.
SubjectOps == {"frontrunning", "sandwich"}

RetryOps == {"arbitrage", "flashloan", "frontrunning", "sandwich", "liquidation"}

EvalModules == {"arbitrage", "flashloan", "frontrunning"}

\* What a contract call can come back with: the transaction took effect, the
\* chain reverted it, or the RPC failed before anything was submitted.
CallOutcomes == {"ok", "revert", "network"}

\* Values of max_retries the runs are started with.
RetryInputs == (0..MaxRetries) \cup {DelayBits - 1, DelayBits, DelayBits + 1, U8Max}

\* 256-bit amounts the profitability checks are evaluated on.
Amounts == {0, 100, 300, 500, GAS_FEES - 1, GAS_FEES, GAS_FEES + 1}

\* Output amounts a router may return for a trade.
TradeOutputs == {GAS_FEES, GAS_FEES + 1}

\* Amounts the executions are started with (main passes U256::zero()).
LoanAmounts == {0, 1000}

----------------------------------------------------------------------------
(* Pure functions *)

Min(a, b) == IF a < b THEN a ELSE b

\* is_profitable with the comparison left out.
IsProfitableAlways(profit, gas_fees) == TRUE

\* arbitrage::is_profitable
IsProfitableArbitrage(profit, gas_fees) == profit > gas_fees

\* flashloan::is_profitable
IsProfitableFlashloan(profit, gas_fees) == profit > gas_fees

\* is_profitable with the comparison weakened to >=.
IsProfitableAcceptsEqual(profit, gas_fees) == profit >= gas_fees

\* frontrunning::is_profitable
IsProfitableFrontrunning(profit, gas_fees) == profit > gas_fees

IsProfitableOf(m, profit, gas_fees) ==
    CASE m = "arbitrage" -> IsProfitableArbitrage(profit, gas_fees)
      [] m = "flashloan" -> IsProfitableFlashloan(profit, gas_fees)
      [] m = "frontrunning" -> IsProfitableFrontrunning(profit, gas_fees)

\* acc = 2^k on the way to 2^d, not counted past cap.
RECURSIVE SecsFrom(_, _, _, _)
SecsFrom(k, acc, d, cap) ==
    IF acc >= cap THEN cap
    ELSE IF k = d THEN acc
    ELSE SecsFrom(k + 1, 2 * acc, d, cap)

\* The seconds an encoded delay d stands for (2^d, or 0), counted up to cap.
SecsCapped(d, cap) == IF d = DelayZero THEN 0 ELSE SecsFrom(0, 1, d, cap)

\* delay *= 2 does not fit a u64.
DoubleOverflows(d) == d # DelayZero /\ d + 1 >= DelayBits

\* delay *= 2 where it fits.
Doubled(d) == IF d = DelayZero THEN DelayZero ELSE d + 1

\* sandwich::repay_flash_loan: flashloan_amount + flashloan_amount / 1000
RepayAmount(flashloan_amount) == flashloan_amount + (flashloan_amount \div 1000)

----------------------------------------------------------------------------
(* Amounts of the scan loops.  The flashloan scan compares amounts around  *)
(* 10^18 wei, which TLC's integers do not hold, so the amounts of the scan *)
(* loops are pairs <<hi, lo>> standing for hi * 10^9 + lo, 0 <= lo < 10^9. *)

Billion == 1000000000

WideFrom(n) == <<n \div Billion, n % Billion>>

WideGt(a, b) == a[1] > b[1] \/ (a[1] = b[1] /\ a[2] > b[2])

\* U256::saturating_sub
WideSatSub(a, b) ==
    IF ~WideGt(a, b) THEN <<0, 0>>
    ELSE IF a[2] >= b[2] THEN <<a[1] - b[1], a[2] - b[2]>>
    ELSE <<a[1] - b[1] - 1, a[2] + Billion - b[2]>>

\* floor(n * k / 100) for 0 <= k <= 100, without forming n * k.
Hundredths(n, k) == (n \div 100) * k + ((n % 100) * k) \div 100

\* (x as f64 * (1.0 - slippage)) as u64 for a slippage of pct percent: the
\* part of hi that does not divide by 100 is carried into lo.
WideScale(a, pct) ==
    LET k == 100 - pct
        carry == (((a[1] % 100) * k) % 100) * (Billion \div 100)
        lo == Hundredths(a[2], k) + carry
    IN  <<Hundredths(a[1], k) + lo \div Billion, lo % Billion>>

\* U256::from(1000000000000000000u64), "1 ETH liquidity"
ONE_ETH == <<Billion, 0>>

\* flashloan::calculate_dynamic_loan_amount with the slippage in percent;
\* expected_profit.low_u64() is expected_profit for the amounts held here.
CalculateDynamicLoanAmountFlashloan(expected_profit, gas_fee, slippage_pct) ==
    WideSatSub(WideScale(expected_profit, slippage_pct), gas_fee)

\* flashloan::is_profitable on the amounts of the scan loop.
IsProfitableFlashloanWide(profit, gas_fees) == WideGt(profit, gas_fees)

\* U256::from_f64(slippage_factor).unwrap() in calculate_potential_profit:
\* the conversion of 0.01 to an integer keeps the integral part.
SlippageFactorAsU256 == 0

\* frontrunning::calculate_potential_profit; saturating_sub keeps it at 0.
CalculatePotentialProfit(transaction_value, gas_fee_limit) ==
    LET potential_profit ==
            transaction_value - (transaction_value * SlippageFactorAsU256)
    IN  IF potential_profit > gas_fee_limit
        THEN potential_profit - gas_fee_limit
        ELSE 0

\* hft::should_trade
ShouldTrade(current_price) == current_price < 3000

\* One submission as the chain client sees it: Contract::call sends a
\* transaction (kind "call"; a dry run would be a "query"), and the record
\* holds the method called, the steps the submission carries, its input
\* amount, and how it came back.
Submission(method, steps, amt, outcome, out, dl) ==
    [kind |-> "call", method |-> method, steps |-> steps, amount |-> amt,
     outcome |-> outcome, out |-> out, deadline |-> dl]

----------------------------------------------------------------------------
\* Nothing of the execution paths is running.
ExecIdle ==
    /\ pc = "idle"
    /\ op = "none"
    /\ max_retries = 0
    /\ attempts = 0
    /\ delay = 0
    /\ loaned = 0
    /\ step = 0
    /\ amount = 0
    /\ log = <<>>
    /\ started = 0
    /\ sleeps = <<>>
    /\ lastErr = "none"
    /\ now = 0
    /\ deadline = NoDeadline
    /\ planDeadline = NoDeadline
    /\ result = "none"
    /\ evalModule = "none"
    /\ gain = 0
    /\ cost = 0
    /\ accepted = FALSE
    /\ subject = "none"
    /\ gas_price = NoGasPrice

\* No scan loop is running.
ScanIdle ==
    /\ scanner = "none"
    /\ spc = "none"
    /\ polls = 0
    /\ lastPoll = "none"
    /\ lastExec = "none"
    /\ candidates = 0
    /\ candGain = 0
    /\ candCost = 0
    /\ mempool = <<>>
    /\ tasks = <<>>
    /\ chain = <<>>
    /\ acceptedOrder = <<>>
    /\ frontrunCalls = <<>>

\* main is not running.
MainIdle ==
    /\ mpc = "none"
    /\ bot_mode = "none"
    /\ strategies = <<>>
    /\ enabled = {}
    /\ pendingRun = {}
    /\ ran = <<>>
    /\ failed = "none"
    /\ configOk = {}
    /\ running = "none"

\* The dashboard is not running.
DashIdle ==
    /\ dpc = <<>>
    /\ dash_status = "none"
    /\ dash_profit = 0
    /\ status_lock = "none"
    /\ profit_lock = "none"
    /\ read_profit = <<>>
    /\ completed = 0
    /\ sent = <<>>

\* No notification is being sent.
NotifyIdle ==
    /\ npc = "none"
    /\ channel = "none"
    /\ nattempt = 0
    /\ nresult = "none"

\* No pure function is being applied.
CalcIdle ==
    /\ callee = "none"
    /\ args = <<>>
    /\ ret = <<>>

Init == ExecIdle /\ ScanIdle /\ MainIdle /\ DashIdle /\ NotifyIdle /\ CalcIdle

\* is_profitable(profit, gas_fees) of module m.
Evaluate(m, g, c) ==
    /\ pc = "idle"
    /\ evalModule' = m
    /\ gain' = g
    /\ cost' = c
    /\ accepted' = IsProfitableOf(m, g, c)
    /\ UNCHANGED <<pc, op, max_retries, attempts, delay, loaned, step, amount,
                   log, started, sleeps, lastErr, now, subject, deadline,
                   planDeadline, gas_price, result>>
    /\ UNCHANGED <<scanVars, mainVars, dashVars, notifyVars, calcVars>>

\* The evaluation record is cleared when an operation starts.
ClearEval ==
    /\ evalModule' = "none"
    /\ gain' = 0
    /\ cost' = 0
    /\ accepted' = FALSE

----------------------------------------------------------------------------
(* The retry loops.  An action runs from one suspension point (.await) to  *)
(* the next: the loop test and the entry of execute_* up to its first      *)
(* contract call belong to the action that reaches them.                   *)

\* while attempts < max_retries { let result = execute_<s>(..).await; ..
\* The body is entered and runs up to its first contract call;
\* execute_sandwich_attack computes its deadline from the clock on the way.
EnterAttempt ==
    /\ pc' = "exec"
    /\ step' = 1
    /\ amount' = loaned'
    /\ log' = <<>>
    /\ started' = started + 1
    /\ deadline' = IF op' = "sandwich" THEN now' + DeadlineWindow ELSE NoDeadline
    /\ planDeadline' = IF started = 0 THEN deadline' ELSE planDeadline
    /\ gas_price' = IF op' = "frontrunning" THEN GasPriceGwei ELSE NoGasPrice
    /\ UNCHANGED result

\* .. } Err(<S>Error::RetriesExceeded)
ExitLoop ==
    /\ pc' = "done"
    /\ result' = "RetriesExceeded"
    /\ UNCHANGED <<step, amount, log, started, deadline, planDeadline, gas_price>>

\* The loop as a do-while: the body runs once before the first test.
LoopHeadAfterBody ==
    IF attempts' < max_retries' \/ attempts' = 0 THEN EnterAttempt ELSE ExitLoop

\* The test of the while loop, on the values the action leaves in attempts
\* and max_retries.
LoopHead == IF attempts' < max_retries' THEN EnterAttempt ELSE ExitLoop

\* Entry of execute_<s>_with_retry: let mut attempts = 0; let mut delay = 1;
\* and the first test of the loop.
StartWithRetry(s, m, amt) ==
    /\ pc = "idle"
    /\ op' = s
    /\ max_retries' = m
    /\ attempts' = 0
    /\ delay' = 0
    /\ loaned' = amt
    /\ subject' = IF s \in SubjectOps THEN "pending" ELSE "none"
    /\ UNCHANGED <<sleeps, lastErr, now>>
    /\ LoopHead
    /\ ClearEval
    /\ UNCHANGED <<scanVars, mainVars, dashVars, notifyVars, calcVars>>

\* The Ok arm without its return: the loop goes on to its backoff wait.
ReturnOkAndGoOn ==
    /\ pc' = "sleep"
    /\ sleeps' = Append(sleeps, delay)
    /\ UNCHANGED <<result, lastErr, attempts>>

\* Ok(_) => return Ok(())
ReturnOk ==
    /\ pc' = "done"
    /\ result' = "Ok"
    /\ UNCHANGED <<lastErr, attempts, sleeps>>

\* The Err arm without its sleep: the loop goes straight on to the next
\* attempt.
ReturnErrNoWait(outcome) ==
    /\ pc' = "exec"
    /\ lastErr' = outcome
    /\ attempts' = attempts + 1
    /\ sleeps' = sleeps
    /\ UNCHANGED result

\* Err(e) => { error!(..); attempts += 1; sleep(Duration::from_secs(delay))
\* up to the .await of the sleep; e was caused by `outcome`.
ReturnErr(outcome) ==
    /\ pc' = "sleep"
    /\ lastErr' = outcome
    /\ attempts' = attempts + 1
    /\ sleeps' = Append(sleeps, delay)
    /\ UNCHANGED result

\* The attempt going on past its next contract call to the one after it.
NextCallSkipsOne ==
    /\ step' = step + 2
    /\ UNCHANGED <<pc, result, lastErr, attempts, sleeps>>

\* The attempt goes on to its next contract call.
NextCall ==
    /\ step' = step + 1
    /\ UNCHANGED <<pc, result, lastErr, attempts, sleeps>>

\* The retry loop going on only once the notification that is under way
\* has been delivered or given up.
WakeWhenNotified ==
    /\ pc = "sleep"
    /\ npc \notin {"send", "sleep"}
    /\ now' = Min(ClockCap, now + SecsCapped(delay, ClockCap))
    /\ UNCHANGED <<op, max_retries, attempts, loaned, sleeps, lastErr, subject>>
    /\ \/ /\ ~DoubleOverflows(delay)
          /\ delay' = Doubled(delay)
          /\ LoopHead
       \/ /\ DoubleOverflows(delay)
          /\ delay' = delay
          /\ pc' = "done"
          /\ result' = "Panic"
          /\ UNCHANGED <<step, amount, log, started, deadline, planDeadline, gas_price>>
       \/ /\ DoubleOverflows(delay)
          /\ delay' = DelayZero
          /\ LoopHead
    /\ UNCHANGED evalVars
    /\ UNCHANGED <<scanVars, mainVars, dashVars, notifyVars, calcVars>>

\* The sleep is over (it took at least `delay` seconds); delay *= 2; and the
\* next test of the loop.  A doubling that does not fit the u64 panics in a
\* build with overflow checks and wraps to 0 in a build without them.
WakeAndDouble ==
    /\ pc = "sleep"
    /\ now' = Min(ClockCap, now + SecsCapped(delay, ClockCap))
    /\ UNCHANGED <<op, max_retries, attempts, loaned, sleeps, lastErr, subject>>
    /\ \/ /\ ~DoubleOverflows(delay)
          /\ delay' = Doubled(delay)
          /\ LoopHead
       \/ /\ DoubleOverflows(delay)
          /\ delay' = delay
          /\ pc' = "done"
          /\ result' = "Panic"
          /\ UNCHANGED <<step, amount, log, started, deadline, planDeadline, gas_price>>
       \/ /\ DoubleOverflows(delay)
          /\ delay' = DelayZero
          /\ LoopHead
    /\ UNCHANGED evalVars
    /\ UNCHANGED <<scanVars, mainVars, dashVars, notifyVars, calcVars>>

\* The observed transaction is mined or dropped from the mempool while a
\* run that was built on it is under way; nothing in the run reads it again.
SubjectLeavesMempool ==
    /\ op \in SubjectOps
    /\ pc \in {"exec", "sleep"}
    /\ subject = "pending"
    /\ subject' = "gone"
    /\ UNCHANGED <<pc, op, max_retries, attempts, delay, loaned, step, amount,
                   log, started, sleeps, lastErr, now, deadline, planDeadline,
                   result, gas_price>>
    /\ UNCHANGED evalVars
    /\ UNCHANGED <<scanVars, mainVars, dashVars, notifyVars, calcVars>>

----------------------------------------------------------------------------
(* The bodies of execute_*: each contract call is one submission *)

LegName(i) == CASE i = 1 -> "leg1" [] i = 2 -> "leg2" [] i = 3 -> "leg3"

\* execute_multi_leg_arbitrage: one perform_trade(..).await? and the
\* is_profitable test that follows it.  perform_trade submits
\* swapExactTokensForTokens and returns the output amount or ContractError.
ArbitragePerformTrade(outcome, out) ==
    /\ pc = "exec"
    /\ op = "arbitrage"
    /\ log' = Append(log, Submission("swapExactTokensForTokens", <<LegName(step)>>,
                                     amount, outcome,
                                     IF outcome = "ok" THEN out ELSE 0, NoDeadline))
    /\ \/ /\ outcome # "ok"
          /\ ReturnErr(outcome)
          /\ UNCHANGED <<step, amount>>
       \/ /\ outcome = "ok"
          /\ IsProfitableArbitrage(out, GAS_FEES)
          /\ step < 3
          /\ NextCall
          /\ amount' = out
       \/ /\ outcome = "ok"
          /\ IsProfitableArbitrage(out, GAS_FEES)
          /\ step = 3
          /\ ReturnOk
          /\ UNCHANGED <<step, amount>>
       \/ /\ outcome = "ok"
          /\ ~IsProfitableArbitrage(out, GAS_FEES)
          /\ ReturnOk
          /\ UNCHANGED <<step, amount>>
    /\ UNCHANGED <<op, max_retries, delay, loaned, started, now, subject, deadline,
                   planDeadline, gas_price>>
    /\ UNCHANGED evalVars
    /\ UNCHANGED <<scanVars, mainVars, dashVars, notifyVars, calcVars>>

\* execute_flashloan: flashloan_contract.call("flashLoan", ..).await
ExecuteFlashloan(outcome) ==
    /\ pc = "exec"
    /\ op = "flashloan"
    /\ log' = Append(log, Submission("flashLoan", <<"borrow">>, loaned, outcome,
                                     0, NoDeadline))
    /\ \/ /\ outcome = "ok"
          /\ ReturnOk
       \/ /\ outcome # "ok"
          /\ ReturnErr(outcome)
    /\ UNCHANGED <<op, max_retries, delay, loaned, step, amount, started, now, subject,
                   deadline, planDeadline, gas_price>>
    /\ UNCHANGED evalVars
    /\ UNCHANGED <<scanVars, mainVars, dashVars, notifyVars, calcVars>>

\* execute_frontrunning: uniswap_router_contract.call("swapExactTokensForTokens", ..)
ExecuteFrontrunning(outcome) ==
    /\ pc = "exec"
    /\ op = "frontrunning"
    /\ log' = Append(log, Submission("swapExactTokensForTokens", <<"front_run">>,
                                     loaned, outcome, 0, NoDeadline))
    /\ \/ /\ outcome = "ok"
          /\ ReturnOk
       \/ /\ outcome # "ok"
          /\ ReturnErr(outcome)
    /\ UNCHANGED <<op, max_retries, delay, loaned, step, amount, started, now, subject,
                   deadline, planDeadline, gas_price>>
    /\ UNCHANGED evalVars
    /\ UNCHANGED <<scanVars, mainVars, dashVars, notifyVars, calcVars>>

\* The front-running call with its result dropped instead of `?`.
SandwichFrontRunUnchecked(outcome) ==
    /\ pc = "exec"
    /\ op = "sandwich"
    /\ step = 1
    /\ log' = Append(log, Submission("swapExactTokensForTokens", <<"front_run">>,
                                     loaned, outcome, 0, deadline))
    /\ NextCall
    /\ UNCHANGED <<op, max_retries, delay, loaned, amount, started, now, subject,
                   deadline, planDeadline, gas_price>>
    /\ UNCHANGED evalVars
    /\ UNCHANGED <<scanVars, mainVars, dashVars, notifyVars, calcVars>>

\* execute_sandwich_attack: the front-running call, .await?
SandwichFrontRun(outcome) ==
    /\ pc = "exec"
    /\ op = "sandwich"
    /\ step = 1
    /\ log' = Append(log, Submission("swapExactTokensForTokens", <<"front_run">>,
                                     loaned, outcome, 0, deadline))
    /\ \/ /\ outcome = "ok"
          /\ NextCall
       \/ /\ outcome # "ok"
          /\ ReturnErr(outcome)
          /\ UNCHANGED step
    /\ UNCHANGED <<op, max_retries, delay, loaned, amount, started, now, subject,
                   deadline, planDeadline, gas_price>>
    /\ UNCHANGED evalVars
    /\ UNCHANGED <<scanVars, mainVars, dashVars, notifyVars, calcVars>>

\* execute_sandwich_attack: the back-running call, .await?, then Ok(())
SandwichBackRun(outcome) ==
    /\ pc = "exec"
    /\ op = "sandwich"
    /\ step = 2
    /\ log' = Append(log, Submission("swapExactTokensForTokens", <<"back_run">>,
                                     loaned, outcome, 0, deadline))
    /\ \/ /\ outcome = "ok"
          /\ ReturnOk
       \/ /\ outcome # "ok"
          /\ ReturnErr(outcome)
    /\ UNCHANGED <<op, max_retries, delay, loaned, step, amount, started, now, subject,
                   deadline, planDeadline, gas_price>>
    /\ UNCHANGED evalVars
    /\ UNCHANGED <<scanVars, mainVars, dashVars, notifyVars, calcVars>>

\* execute_liquidation: request_flashloan only logs and returns Ok(()), so
\* the attempt reaches no contract and returns Ok(()).
ExecuteLiquidation ==
    /\ pc = "exec"
    /\ op = "liquidation"
    /\ ReturnOk
    /\ UNCHANGED <<op, max_retries, delay, loaned, step, amount, log, started,
                   now, subject, deadline, planDeadline, gas_price>>
    /\ UNCHANGED evalVars
    /\ UNCHANGED <<scanVars, mainVars, dashVars, notifyVars, calcVars>>

----------------------------------------------------------------------------
(* Operations without a retry loop *)

\* Entry of execute_hft: the spawned task runs up to request_flash_loan.
StartHft ==
    /\ pc = "idle"
    /\ pc' = "exec"
    /\ op' = "hft"
    /\ step' = 1
    /\ started' = 1
    /\ ClearEval
    /\ UNCHANGED <<scanVars, mainVars, dashVars, notifyVars, calcVars>>
    /\ UNCHANGED <<loaned, amount, log, lastErr, now, subject, deadline,
                   planDeadline, gas_price, result>>
    /\ UNCHANGED retryVars

\* The task going on to execute_trade whatever request_flash_loan returned.
HftRequestFlashLoanUnmatched(outcome) ==
    /\ pc = "exec"
    /\ op = "hft"
    /\ step = 1
    /\ log' = Append(log, Submission("flashLoan", <<"borrow">>, loaned, outcome,
                                     0, NoDeadline))
    /\ step' = 2
    /\ lastErr' = IF outcome = "ok" THEN lastErr ELSE outcome
    /\ UNCHANGED <<pc, result, op, loaned, amount, started, now, subject, deadline,
                   planDeadline, gas_price>>
    /\ UNCHANGED retryVars
    /\ UNCHANGED evalVars
    /\ UNCHANGED <<scanVars, mainVars, dashVars, notifyVars, calcVars>>

\* execute_hft: match request_flash_loan(..).await; on Err the error is
\* logged, the task ends and execute_hft returns Ok(()).
HftRequestFlashLoan(outcome) ==
    /\ pc = "exec"
    /\ op = "hft"
    /\ step = 1
    /\ log' = Append(log, Submission("flashLoan", <<"borrow">>, loaned, outcome,
                                     0, NoDeadline))
    /\ \/ /\ outcome = "ok"
          /\ step' = 2
          /\ UNCHANGED <<pc, result, lastErr>>
       \/ /\ outcome # "ok"
          /\ pc' = "done"
          /\ result' = "Ok"
          /\ lastErr' = outcome
          /\ UNCHANGED step
    /\ UNCHANGED <<op, loaned, amount, started, now, subject, deadline,
                   planDeadline, gas_price>>
    /\ UNCHANGED retryVars
    /\ UNCHANGED evalVars
    /\ UNCHANGED <<scanVars, mainVars, dashVars, notifyVars, calcVars>>

\* execute_hft: match execute_trade(..).await; both arms only log, and
\* execute_hft returns Ok(()).
HftExecuteTrade(outcome) ==
    /\ pc = "exec"
    /\ op = "hft"
    /\ step = 2
    /\ log' = Append(log, Submission("swapExactTokensForTokens", <<"trade">>,
                                     1000, outcome, 0, NoDeadline))
    /\ pc' = "done"
    /\ result' = "Ok"
    /\ lastErr' = IF outcome = "ok" THEN lastErr ELSE outcome
    /\ UNCHANGED <<op, loaned, step, amount, started, now, subject, deadline,
                   planDeadline, gas_price>>
    /\ UNCHANGED retryVars
    /\ UNCHANGED evalVars
    /\ UNCHANGED <<scanVars, mainVars, dashVars, notifyVars, calcVars>>

\* What a single-call operation returns.
CallResult(outcome) == IF outcome = "ok" THEN "Ok" ELSE "Err"

\* sandwich::request_flash_loan(web3, amount): one flashLoan call, .await?
SandwichRequestFlashLoan(amt, outcome) ==
    /\ pc = "idle"
    /\ pc' = "done"
    /\ op' = "request_flash_loan"
    /\ loaned' = amt
    /\ started' = 1
    /\ log' = <<Submission("flashLoan", <<"borrow">>, amt, outcome, 0, NoDeadline)>>
    /\ result' = CallResult(outcome)
    /\ lastErr' = IF outcome = "ok" THEN "none" ELSE outcome
    /\ ClearEval
    /\ UNCHANGED <<scanVars, mainVars, dashVars, notifyVars, calcVars>>
    /\ UNCHANGED <<step, amount, now, subject, deadline, planDeadline, gas_price>>
    /\ UNCHANGED retryVars

\* sandwich::repay_flash_loan(web3, flashloan_amount): one repay call, .await?
SandwichRepayFlashLoan(amt, outcome) ==
    /\ pc = "idle"
    /\ pc' = "done"
    /\ op' = "repay_flash_loan"
    /\ loaned' = amt
    /\ started' = 1
    /\ log' = <<Submission("repay", <<"repay">>, RepayAmount(amt), outcome, 0,
                           NoDeadline)>>
    /\ result' = CallResult(outcome)
    /\ lastErr' = IF outcome = "ok" THEN "none" ELSE outcome
    /\ ClearEval
    /\ UNCHANGED <<scanVars, mainVars, dashVars, notifyVars, calcVars>>
    /\ UNCHANGED <<step, amount, now, subject, deadline, planDeadline, gas_price>>
    /\ UNCHANGED retryVars

----------------------------------------------------------------------------
Next ==
    \/ \E m \in EvalModules, g \in Amounts, c \in Amounts : Evaluate(m, g, c)
    \/ \E s \in RetryOps, m \in RetryInputs, amt \in LoanAmounts :
          StartWithRetry(s, m, amt)
    \/ WakeAndDouble
    \/ SubjectLeavesMempool
    \/ \E o \in CallOutcomes, out \in TradeOutputs : ArbitragePerformTrade(o, out)
    \/ \E o \in CallOutcomes : ExecuteFlashloan(o)
    \/ \E o \in CallOutcomes : ExecuteFrontrunning(o)
    \/ \E o \in CallOutcomes : SandwichFrontRun(o)
    \/ \E o \in CallOutcomes : SandwichBackRun(o)
    \/ ExecuteLiquidation
    \/ StartHft
    \/ \E o \in CallOutcomes : HftRequestFlashLoan(o)
    \/ \E o \in CallOutcomes : HftExecuteTrade(o)
    \/ \E amt \in LoanAmounts, o \in CallOutcomes : SandwichRequestFlashLoan(amt, o)
    \/ \E amt \in LoanAmounts, o \in CallOutcomes : SandwichRepayFlashLoan(amt, o)

Spec == Init /\ [][Next]_vars

----------------------------------------------------------------------------
(* The scan loops.  Each runs alone; spc is its position:                  *)
(*   "start"    at the top of the loop                                     *)
(*   "join"     scan_for_opportunities awaits join_all(tasks)              *)
(*   "scan"     monitor_mempool is inside its for loop                     *)
(*   "fetch"    monitor_mempool_for_large_transactions awaits the          *)
(*              transaction of the hash the stream delivered               *)
(*   "exec"     awaiting the execute_* operation of a candidate            *)
(*   "sleep"    awaiting sleep(..)                                         *)
(*   "returned" the function has returned                                  *)

\* A scan loop is followed for MaxPolls reads of the chain.
MaxPolls == 3

ScanLoops == {"scan_for_opportunities", "scan_for_flashloan_opportunities",
              "monitor_mempool", "monitor_price_movements",
              "monitor_mempool_for_large_transactions"}

\* token_pairs of scan_for_opportunities: two pairs.
TokenPairs == {1, 2}

\* What a read of the chain comes back with.  get_token_price is declared to
\* return Result<U256, ArbitrageError> and its body is unimplemented!(), so
\* a price read of the arbitrage scan may also panic.
ReadOutcomes == {"ok", "err"}
PriceReadOutcomes == ReadOutcomes \cup {"panic"}

\* Prices the routers report to the arbitrage scan.
Prices == {0, 1, GAS_FEES + 1, GAS_FEES + 200}

\* Prices the router reports to monitor_price_movements.
AssetPrices == {2999, 3000}

\* Liquidity the lending pool reports to the flashloan scan.
Liquidities == {<<0, 5>>, ONE_ETH, <<Billion, 1>>}

\* monitor_mempool(web3, threshold_amount, gas_fee_limit, ..) as it is
\* called here, and the values of the pending transactions.
ThresholdAmount == 250
GasFeeLimit == 300
TxValues == {100, 400, 600, 601, 800}

\* monitor_mempool_for_large_transactions(websocket_url, min_tx_value)
MinTxValue == 500

\* The pending transactions are told apart by their hashes; the value of a
\* transaction is fixed by its hash.
TxHashes == 1 .. 5
TxValueOf == <<100, 400, 600, 601, 800>>

\* The pending block of one poll holds up to two transactions.  A
\* transaction that is not mined between two polls is in the pending block
\* of both.
PendingLists ==
    {<<>>} \cup {<<h>> : h \in TxHashes}
           \cup {q \in {<<h, k>> : h, k \in {2, 5}} : q[1] # q[2]}

\* The states in which a task of the arbitrage scan has ended.
TaskEnded == {"Ok", "Err", "Panic"}

ScanInit ==
    /\ ExecIdle
    /\ MainIdle
    /\ DashIdle
    /\ NotifyIdle
    /\ CalcIdle
    /\ scanner \in ScanLoops
    /\ spc = "start"
    /\ polls = 0
    /\ lastPoll = "none"
    /\ lastExec = "none"
    /\ candidates = 0
    /\ candGain = <<0, 0>>
    /\ candCost = <<0, 0>>
    /\ mempool = <<>>
    /\ tasks = <<>>
    /\ chain = <<>>
    /\ acceptedOrder = <<>>
    /\ frontrunCalls = [h \in TxHashes |-> 0]

\* scan_for_opportunities: one task per token pair is spawned, each running
\* check_arbitrage_opportunity up to its first price read; join_all.
ArbSpawn ==
    /\ scanner = "scan_for_opportunities"
    /\ spc = "start"
    /\ polls < MaxPolls
    /\ polls' = polls + 1
    /\ spc' = "join"
    /\ tasks' = [t \in TokenPairs |->
                    [pc |-> "price_uniswap", price |-> 0, gain |-> 0, amount |-> 0]]
    /\ chain' = <<>>
    /\ acceptedOrder' = <<>>
    /\ lastPoll' = "none"
    /\ lastExec' = "none"
    /\ UNCHANGED <<scanner, candidates, candGain, candCost, mempool>>
    /\ UNCHANGED <<frontrunCalls, execVars, mainVars, dashVars, notifyVars,
                   calcVars>>

\* check_arbitrage_opportunity of task t:
\* let price_uniswap = get_token_price(..).await?;
ArbPriceUniswap(t, outcome, p) ==
    /\ scanner = "scan_for_opportunities"
    /\ spc = "join"
    /\ tasks[t].pc = "price_uniswap"
    /\ tasks' = [tasks EXCEPT ![t] =
                    CASE outcome = "ok" ->
                            [@ EXCEPT !.pc = "price_sushiswap", !.price = p]
                      [] outcome = "err" -> [@ EXCEPT !.pc = "Err"]
                      [] outcome = "panic" -> [@ EXCEPT !.pc = "Panic"]]
    /\ UNCHANGED <<scanner, spc, polls, lastPoll, lastExec, candidates, candGain,
                   candCost, mempool, chain, acceptedOrder>>
    /\ UNCHANGED <<frontrunCalls, execVars, mainVars, dashVars, notifyVars,
                   calcVars>>

\* The profit of task t once both prices are known.
ArbProfit(t, price_sushiswap) == tasks[t].price - price_sushiswap

\* if price_uniswap > price_sushiswap { .. if is_profitable(profit, gas_fees)
ArbAccepts(t, price_sushiswap) ==
    /\ tasks[t].price > price_sushiswap
    /\ IsProfitableArbitrage(ArbProfit(t, price_sushiswap), GAS_FEES)

\* check_arbitrage_opportunity of task t:
\* let price_sushiswap = get_token_price(..).await?; the comparison of the
\* prices, is_profitable, and execute_multi_leg_arbitrage(web3, profit) up
\* to its first trade.
ArbPriceSushiswap(t, outcome, p) ==
    /\ scanner = "scan_for_opportunities"
    /\ spc = "join"
    /\ tasks[t].pc = "price_sushiswap"
    /\ tasks' = [tasks EXCEPT ![t] =
                    CASE outcome = "err" -> [@ EXCEPT !.pc = "Err"]
                      [] outcome = "panic" -> [@ EXCEPT !.pc = "Panic"]
                      [] outcome = "ok" /\ ArbAccepts(t, p) ->
                            [@ EXCEPT !.pc = "leg1", !.gain = ArbProfit(t, p),
                                      !.amount = ArbProfit(t, p)]
                      [] outcome = "ok" /\ ~ArbAccepts(t, p) -> [@ EXCEPT !.pc = "Ok"]]
    /\ IF outcome = "ok" /\ ArbAccepts(t, p)
       THEN /\ acceptedOrder' = Append(acceptedOrder, t)
            /\ candidates' = Min(MaxPolls, candidates + 1)
       ELSE UNCHANGED <<acceptedOrder, candidates>>
    /\ UNCHANGED <<scanner, spc, polls, lastPoll, lastExec, candGain, candCost,
                   mempool, chain>>
    /\ UNCHANGED <<frontrunCalls, execVars, mainVars, dashVars, notifyVars,
                   calcVars>>

\* The leg that follows a leg.
NextLeg(leg) == CASE leg = "leg1" -> "leg2" [] leg = "leg2" -> "leg3"

\* execute_multi_leg_arbitrage of task t: one perform_trade(..).await? and
\* the is_profitable test that follows it; the chain client receives the
\* trade of the task.
ArbTrade(t, outcome, out) ==
    /\ scanner = "scan_for_opportunities"
    /\ spc = "join"
    /\ tasks[t].pc \in {"leg1", "leg2", "leg3"}
    /\ chain' = Append(chain, [task |-> t, leg |-> tasks[t].pc])
    /\ tasks' = [tasks EXCEPT ![t] =
                    CASE outcome # "ok" -> [@ EXCEPT !.pc = "Err"]
                      [] outcome = "ok" /\ IsProfitableArbitrage(out, GAS_FEES)
                            /\ tasks[t].pc # "leg3" ->
                            [@ EXCEPT !.pc = NextLeg(tasks[t].pc), !.amount = out]
                      [] OTHER -> [@ EXCEPT !.pc = "Ok", !.amount = out]]
    /\ UNCHANGED <<scanner, spc, polls, lastPoll, lastExec, candidates, candGain,
                   candCost, mempool, acceptedOrder>>
    /\ UNCHANGED <<frontrunCalls, execVars, mainVars, dashVars, notifyVars,
                   calcVars>>

\* join_all(tasks).await is over: every task has ended, by returning or by
\* a panic, which spawn turns into a JoinError nobody looks at; then
\* sleep(Duration::from_secs(check_interval)).
ArbJoin ==
    /\ scanner = "scan_for_opportunities"
    /\ spc = "join"
    /\ \A t \in TokenPairs : tasks[t].pc \in TaskEnded
    /\ spc' = "sleep"
    /\ lastPoll' = IF \E t \in TokenPairs : tasks[t].pc # "Ok" THEN "failed" ELSE "ok"
    /\ UNCHANGED <<scanner, polls, lastExec, candidates, candGain, candCost,
                   mempool, tasks, chain, acceptedOrder>>
    /\ UNCHANGED <<frontrunCalls, execVars, mainVars, dashVars, notifyVars,
                   calcVars>>

\* sleep(Duration::from_secs(check_interval)).await is over: loop.
ScanWake ==
    /\ spc = "sleep"
    /\ spc' = "start"
    /\ UNCHANGED <<scanner, polls, lastPoll, lastExec, candidates, candGain,
                   candCost, mempool, tasks, chain, acceptedOrder>>
    /\ UNCHANGED <<frontrunCalls, execVars, mainVars, dashVars, notifyVars,
                   calcVars>>

\* scan_for_flashloan_opportunities: get_liquidity_data(..).await, the
\* liquidity test, the loan amount and is_profitable, up to the .await of
\* execute_flashloan or of the sleep.
FlashloanPoll(outcome, liquidity) ==
    /\ scanner = "scan_for_flashloan_opportunities"
    /\ spc = "start"
    /\ polls < MaxPolls
    /\ polls' = polls + 1
    /\ lastPoll' = IF outcome = "ok" THEN "ok" ELSE "failed"
    /\ lastExec' = "none"
    /\ IF outcome = "ok" /\ WideGt(liquidity, ONE_ETH)
       THEN LET loan_amount == CalculateDynamicLoanAmountFlashloan(
                                   ONE_ETH, WideFrom(GAS_FEES), 1)
            IN  /\ candidates' = Min(MaxPolls, candidates + 1)
                /\ candGain' = loan_amount
                /\ candCost' = WideFrom(GAS_FEES)
                /\ spc' = IF IsProfitableFlashloanWide(loan_amount, WideFrom(GAS_FEES))
                          THEN "exec" ELSE "sleep"
       ELSE /\ spc' = "sleep"
            /\ UNCHANGED <<candidates, candGain, candCost>>
    /\ UNCHANGED <<scanner, mempool, tasks, chain, acceptedOrder>>
    /\ UNCHANGED <<frontrunCalls, execVars, mainVars, dashVars, notifyVars,
                   calcVars>>

\* monitor_mempool: fetch_mempool_transactions(web3).await; a failed read of
\* the pending block gives the empty list.
MempoolFetch(outcome, txs) ==
    /\ scanner = "monitor_mempool"
    /\ spc = "start"
    /\ polls < MaxPolls
    /\ polls' = polls + 1
    /\ lastPoll' = IF outcome = "ok" THEN "ok" ELSE "failed"
    /\ lastExec' = "none"
    /\ mempool' = IF outcome = "ok" THEN txs ELSE <<>>
    /\ spc' = "scan"
    /\ UNCHANGED <<scanner, candidates, candGain, candCost, tasks, chain,
                   acceptedOrder>>
    /\ UNCHANGED <<frontrunCalls, execVars, mainVars, dashVars, notifyVars,
                   calcVars>>

\* monitor_mempool: one turn of `for transaction in pending_transactions`,
\* up to the .await of execute_frontrunning; after the last transaction
\* sleep(..).
MempoolNext ==
    /\ scanner = "monitor_mempool"
    /\ spc = "scan"
    /\ IF mempool = <<>>
       THEN /\ spc' = "sleep"
            /\ UNCHANGED <<mempool, candidates, candGain, candCost, frontrunCalls>>
       ELSE LET transaction == Head(mempool)
                tx_value == TxValueOf[transaction]
                potential_profit == CalculatePotentialProfit(tx_value, GasFeeLimit)
                executes == /\ tx_value > ThresholdAmount
                            /\ IsProfitableFrontrunning(potential_profit, GasFeeLimit)
            IN  /\ mempool' = Tail(mempool)
                /\ IF tx_value > ThresholdAmount
                   THEN /\ candidates' = Min(MaxPolls, candidates + 1)
                        /\ candGain' = WideFrom(potential_profit)
                        /\ candCost' = WideFrom(GasFeeLimit)
                   ELSE UNCHANGED <<candidates, candGain, candCost>>
                /\ spc' = IF executes THEN "exec" ELSE "scan"
                /\ frontrunCalls' = IF executes
                                    THEN [frontrunCalls EXCEPT ![transaction] = @ + 1]
                                    ELSE frontrunCalls
    /\ UNCHANGED <<scanner, polls, lastPoll, lastExec, tasks, chain, acceptedOrder>>
    /\ UNCHANGED <<execVars, mainVars, dashVars, notifyVars, calcVars>>

\* monitor_price_movements: get_asset_price(..).await?, should_trade, up to
\* the .await of execute_hft or of the sleep.  The ? returns the error of a
\* failed read from monitor_price_movements.
PricePoll(outcome, price) ==
    /\ scanner = "monitor_price_movements"
    /\ spc = "start"
    /\ polls < MaxPolls
    /\ polls' = polls + 1
    /\ lastPoll' = IF outcome = "ok" THEN "ok" ELSE "failed"
    /\ lastExec' = "none"
    /\ spc' = CASE outcome # "ok" -> "returned"
                [] outcome = "ok" /\ ShouldTrade(price) -> "exec"
                [] OTHER -> "sleep"
    /\ candidates' = IF outcome = "ok" /\ ShouldTrade(price)
                     THEN Min(MaxPolls, candidates + 1) ELSE candidates
    /\ UNCHANGED <<scanner, candGain, candCost, mempool, tasks, chain, acceptedOrder>>
    /\ UNCHANGED <<frontrunCalls, execVars, mainVars, dashVars, notifyVars,
                   calcVars>>

\* Where a scan loop goes on after the execution it awaited.
AfterExec == [scan_for_flashloan_opportunities |-> "sleep",
              monitor_mempool |-> "scan",
              monitor_price_movements |-> "sleep"]

\* The execution a scan loop awaited has returned: execute_flashloan and
\* execute_frontrunning under `if let Err(e)`, which logs the error;
\* execute_hft, which returns Ok(()) whatever its flash loan and trade did.
ScanExecReturns(outcome) ==
    /\ spc = "exec"
    /\ scanner \in DOMAIN AfterExec
    /\ lastExec' = IF outcome = "ok" THEN "ok" ELSE "failed"
    /\ spc' = AfterExec[scanner]
    /\ UNCHANGED <<scanner, polls, lastPoll, candidates, candGain, candCost,
                   mempool, tasks, chain, acceptedOrder>>
    /\ UNCHANGED <<frontrunCalls, execVars, mainVars, dashVars, notifyVars,
                   calcVars>>

\* What the pending-transaction stream delivers: a hash, an error, or its end.
StreamItems == {"hash", "err", "end"}

\* monitor_mempool_for_large_transactions: pending_tx_stream.next().await.
\* An error is logged and followed by sleep(1 s); the end of the stream
\* leaves the loop and returns Err(NoLargeTrades).
StreamNext(item) ==
    /\ scanner = "monitor_mempool_for_large_transactions"
    /\ spc = "start"
    /\ polls < MaxPolls
    /\ polls' = polls + 1
    /\ lastPoll' = CASE item = "hash" -> "ok"
                     [] item = "err" -> "failed"
                     [] item = "end" -> "closed"
    /\ spc' = CASE item = "hash" -> "fetch"
                [] item = "err" -> "sleep"
                [] item = "end" -> "returned"
    /\ UNCHANGED <<scanner, lastExec, candidates, candGain, candCost, mempool,
                   tasks, chain, acceptedOrder>>
    /\ UNCHANGED <<frontrunCalls, execVars, mainVars, dashVars, notifyVars,
                   calcVars>>

\* monitor_mempool_for_large_transactions:
\* web3.eth().transaction(..).await under `if let Ok(tx)` / `if let Some`;
\* a transaction of value >= min_tx_value is returned to the caller.
StreamFetch(outcome, value) ==
    /\ scanner = "monitor_mempool_for_large_transactions"
    /\ spc = "fetch"
    /\ lastPoll' = IF outcome = "ok" THEN "ok" ELSE "failed"
    /\ IF outcome = "ok" /\ value >= MinTxValue
       THEN /\ candidates' = Min(MaxPolls, candidates + 1)
            /\ spc' = "returned"
       ELSE /\ spc' = "start"
            /\ UNCHANGED candidates
    /\ UNCHANGED <<scanner, polls, lastExec, candGain, candCost, mempool, tasks,
                   chain, acceptedOrder>>
    /\ UNCHANGED <<frontrunCalls, execVars, mainVars, dashVars, notifyVars,
                   calcVars>>

ScanNext ==
    \/ ArbSpawn
    \/ \E t \in TokenPairs, o \in PriceReadOutcomes, p \in Prices :
          ArbPriceUniswap(t, o, p)
    \/ \E t \in TokenPairs, o \in PriceReadOutcomes, p \in Prices :
          ArbPriceSushiswap(t, o, p)
    \/ \E t \in TokenPairs, o \in CallOutcomes, out \in TradeOutputs :
          ArbTrade(t, o, out)
    \/ ArbJoin
    \/ ScanWake
    \/ \E o \in ReadOutcomes, l \in Liquidities : FlashloanPoll(o, l)
    \/ \E o \in ReadOutcomes, txs \in PendingLists : MempoolFetch(o, txs)
    \/ MempoolNext
    \/ \E o \in ReadOutcomes, p \in AssetPrices : PricePoll(o, p)
    \/ \E o \in CallOutcomes : ScanExecReturns(o)
    \/ \E i \in StreamItems : StreamNext(i)
    \/ \E o \in ReadOutcomes, v \in TxValues : StreamFetch(o, v)

SpecScan == ScanInit /\ [][ScanNext]_vars

----------------------------------------------------------------------------
(* main in bot mode "multi" / "all": the enabled strategies are run one    *)
(* after the other, each awaited and unwrapped.  mpc is the position of    *)
(* main: "loop" at the head of the for loop, "awaiting" inside the .await  *)
(* of a strategy, "returned" after Ok(()), "panicked" after the unwrap of  *)
(* an Err or the expect of load_strategy_config.  In the bot mode of one   *)
(* strategy the arm of that strategy is the only turn; any other bot mode  *)
(* is logged as invalid and has no turn.                                   *)

\* The strategy names main knows.
Strategies == {"arbitrage", "flashloan", "frontrunning", "liquidation", "sandwich", "hft"}

\* The names the "strategies" object of the configuration may hold.
StrategyNames == Strategies \cup {"unknown"}

\* What the call main makes for a strategy can return: the two *_with_retry
\* calls and execute_flashloan return Ok or Err; fetch_mempool_transactions
\* returns a list; execute_liquidation and execute_hft return Ok(()) on every
\* path; an unknown name is logged.
StrategyOutcomes ==
    [arbitrage |-> {"Ok", "Err"}, flashloan |-> {"Ok", "Err"},
     frontrunning |-> {"Ok"}, liquidation |-> {"Ok"},
     sandwich |-> {"Ok", "Err"}, hft |-> {"Ok"}, unknown |-> {"Skipped"}]

\* The elements of a sequence.
Range(q) == {q[i] : i \in DOMAIN q}

\* The bot modes of the configuration: the arms of `match bot_mode` and a
\* string that matches none of them.
BotModes == Strategies \cup {"multi", "all", "invalid"}

\* What strategy["enabled"] may hold: a boolean, or nothing that as_bool()
\* accepts (the key is missing or is not a boolean).
EnabledFlags == {"true", "false", "missing"}

\* enabled_strategies: .filter(|(_, strategy)|
\* strategy["enabled"].as_bool().unwrap_or(false)).map(|(name, _)| name)
EnabledStrategies(config) == {name \in DOMAIN config : config[name] = "true"}

\* The turns main is going to take: the enabled strategies in bot mode
\* "multi" / "all", the strategy of the mode in the mode of one strategy.
Selected(mode, config) ==
    CASE mode \in {"multi", "all"} -> EnabledStrategies(config)
      [] mode \in Strategies -> {mode}
      [] OTHER -> {}

\* main has read its configuration and reached `match bot_mode`.  The
\* configuration files config/<name>_config.json of the strategies it is
\* going to run are there and well-formed, or not.
MainInit ==
    /\ ExecIdle
    /\ ScanIdle
    /\ DashIdle
    /\ NotifyIdle
    /\ CalcIdle
    /\ mpc = "loop"
    /\ bot_mode \in BotModes
    /\ strategies \in [StrategyNames -> EnabledFlags]
    /\ enabled = IF bot_mode \in {"multi", "all"} THEN EnabledStrategies(strategies) ELSE {}
    /\ pendingRun = Selected(bot_mode, strategies)
    /\ ran = <<>>
    /\ failed = "none"
    /\ configOk \in SUBSET (pendingRun \cap Strategies)
    /\ running = "none"

\* load_strategy_config(strategy_name): read_to_string(..).expect(..) and
\* from_str(..).expect(..); the fields the arm reads are unwrapped the same way.
LoadStrategyConfig(strategy_name) ==
    IF strategy_name \in configOk THEN "loaded" ELSE "panic"

\* One turn of `for strategy in enabled_strategies` can begin: main is at
\* the head of the loop and the strategy is still to come.
MainCanStart(s) ==
    /\ mpc = "loop"
    /\ s \in pendingRun

\* One turn of `for strategy in enabled_strategies`, up to the .await of the
\* strategy: the arm of the name loads the configuration of the strategy
\* and calls it; an unknown name is logged.  The order of the names is that
\* of the map the configuration was parsed into.
MainStartStrategy(s) ==
    /\ MainCanStart(s)
    /\ pendingRun' = pendingRun \ {s}
    /\ CASE s \notin Strategies ->
                UNCHANGED <<mpc, ran, running>>
         [] s \in Strategies /\ LoadStrategyConfig(s) = "panic" ->
                /\ mpc' = "panicked"
                /\ UNCHANGED <<ran, running>>
         [] s \in Strategies /\ LoadStrategyConfig(s) = "loaded" ->
                /\ mpc' = "awaiting"
                /\ running' = s
                /\ ran' = Append(ran, s)
    /\ UNCHANGED <<bot_mode, strategies, enabled, failed, configOk>>
    /\ UNCHANGED <<execVars, scanVars, dashVars, notifyVars, calcVars>>

\* The strategy main awaits has returned; its result is unwrapped.
MainStrategyReturns(outcome) ==
    /\ mpc = "awaiting"
    /\ outcome \in StrategyOutcomes[running]
    /\ running' = "none"
    /\ IF outcome = "Err"
       THEN /\ mpc' = "panicked"
            /\ failed' = running
       ELSE /\ mpc' = "loop"
            /\ UNCHANGED failed
    /\ UNCHANGED <<bot_mode, strategies, enabled, pendingRun, ran, configOk>>
    /\ UNCHANGED <<execVars, scanVars, dashVars, notifyVars, calcVars>>

\* The match is over (after the for loop, the arm of the one strategy, or
\* error!("Invalid bot mode: {}", bot_mode)): Ok(())
MainReturns ==
    /\ mpc = "loop"
    /\ pendingRun = {}
    /\ mpc' = "returned"
    /\ UNCHANGED <<bot_mode, strategies, enabled, pendingRun, ran, failed, configOk,
                   running>>
    /\ UNCHANGED <<execVars, scanVars, dashVars, notifyVars, calcVars>>

MainNext ==
    \/ \E s \in StrategyNames : MainStartStrategy(s)
    \/ \E o \in {"Ok", "Err"} : MainStrategyReturns(o)
    \/ MainReturns

SpecMain == MainInit /\ [][MainNext]_vars

----------------------------------------------------------------------------
(* The dashboard: the POST handlers run_strategy and                       *)
(* run_multiple_strategies, the two tasks run_multiple_strategies spawns   *)
(* and handle_websocket, on the multi-threaded runtime of #[tokio::main].  *)
(* status and profit are std::sync::Mutex values; lock() blocks the caller *)
(* until the guard is free.  dpc[c] is the position of call c:             *)
(*   "idle"         no request is being served / the task is not spawned   *)
(*   "lock_status"  at state.lock()                                        *)
(*   "sleep"        run_strategy awaits sleep(3 s)                         *)
(*   "lock_profit"  run_strategy is at profit.lock()                       *)
(*   "add"          run_strategy has read *profit_value and not yet        *)
(*                  written the sum                                        *)
(*   "join"         run_multiple_strategies awaits tokio::join!            *)
(*   "done"         the call has returned                                  *)
(*   "wait", "read_status", "read_profit", "closed"  handle_websocket      *)

\* The dashboard is followed until MaxRuns calls of run_strategy have returned.
MaxRuns == 3

\* The routes that run a strategy, and the tasks run_multiple_strategies spawns.
RunStrategyRoutes == {"run_arbitrage", "run_flashloan"}
SpawnedTasks == {"arbitrage_task", "flashloan_task"}
RunStrategyCalls == RunStrategyRoutes \cup SpawnedTasks
DashCalls == RunStrategyCalls \cup {"run_multiple", "websocket"}

\* The `strategy` argument of a call of run_strategy.
StrategyOf(c) ==
    IF c \in {"run_arbitrage", "arbitrage_task"} THEN "arbitrage" ELSE "flashloan"

\* format!("Running {} strategy", strategy)
StatusRunning(strategy) ==
    IF strategy = "arbitrage" THEN "Running arbitrage strategy"
                              ELSE "Running flashloan strategy"

\* format!("{} strategy completed", strategy)
StatusCompleted(strategy) ==
    IF strategy = "arbitrage" THEN "arbitrage strategy completed"
                              ELSE "flashloan strategy completed"

\* A Mutex whose guard nobody holds lets lock() return.
LockIgnored(holder) == TRUE

LockFree(holder) == holder = "none"

\* *profit_value += 100.0
AddProfit(profit_value) == profit_value + 100

\* main of the dashboard: status "Ready", profit 0.0, the routes are served.
DashInit ==
    /\ ExecIdle
    /\ ScanIdle
    /\ MainIdle
    /\ NotifyIdle
    /\ CalcIdle
    /\ dpc = [c \in DashCalls |-> IF c = "websocket" THEN "wait" ELSE "idle"]
    /\ dash_status = "Ready"
    /\ dash_profit = 0
    /\ status_lock = "none"
    /\ profit_lock = "none"
    /\ read_profit = [c \in RunStrategyCalls |-> 0]
    /\ completed = 0
    /\ sent = [status |-> "Ready", profit |-> 0]

\* A POST request reaches a route: warp calls the handler.
DashRequest(c) ==
    /\ c \in RunStrategyRoutes \cup {"run_multiple"}
    /\ dpc[c] \in {"idle", "done"}
    /\ completed < MaxRuns
    /\ dpc' = [dpc EXCEPT ![c] = "lock_status"]
    /\ UNCHANGED <<dash_status, dash_profit, status_lock, profit_lock,
                   read_profit, completed, sent>>
    /\ UNCHANGED <<execVars, scanVars, mainVars, notifyVars, calcVars>>

\* run_strategy: let mut status = state.lock().unwrap();
\* *status = format!("Running {} strategy", strategy); up to the .await of
\* sleep.  The guard `status` lives to the end of the function.
RunStrategyLockStatus(c) ==
    /\ c \in RunStrategyCalls
    /\ dpc[c] = "lock_status"
    /\ LockFree(status_lock)
    /\ status_lock' = c
    /\ dash_status' = StatusRunning(StrategyOf(c))
    /\ dpc' = [dpc EXCEPT ![c] = "sleep"]
    /\ UNCHANGED <<dash_profit, profit_lock, read_profit, completed, sent>>
    /\ UNCHANGED <<execVars, scanVars, mainVars, notifyVars, calcVars>>

\* run_strategy: sleep(Duration::from_secs(3)).await is over.
RunStrategyWake(c) ==
    /\ c \in RunStrategyCalls
    /\ dpc[c] = "sleep"
    /\ dpc' = [dpc EXCEPT ![c] = "lock_profit"]
    /\ UNCHANGED <<dash_status, dash_profit, status_lock, profit_lock,
                   read_profit, completed, sent>>
    /\ UNCHANGED <<execVars, scanVars, mainVars, notifyVars, calcVars>>

\* run_strategy: let mut profit_value = profit.lock().unwrap(); and the
\* read of *profit_value += 100.0
RunStrategyLockProfit(c) ==
    /\ c \in RunStrategyCalls
    /\ dpc[c] = "lock_profit"
    /\ LockFree(profit_lock)
    /\ profit_lock' = c
    /\ read_profit' = [read_profit EXCEPT ![c] = dash_profit]
    /\ dpc' = [dpc EXCEPT ![c] = "add"]
    /\ UNCHANGED <<dash_status, dash_profit, status_lock, completed, sent>>
    /\ UNCHANGED <<execVars, scanVars, mainVars, notifyVars, calcVars>>

\* run_strategy: the write of *profit_value += 100.0,
\* *status = format!("{} strategy completed", strategy), the reply, and the
\* drop of both guards at the return.
RunStrategyAdd(c) ==
    /\ c \in RunStrategyCalls
    /\ dpc[c] = "add"
    /\ dash_profit' = AddProfit(read_profit[c])
    /\ dash_status' = StatusCompleted(StrategyOf(c))
    /\ profit_lock' = "none"
    /\ status_lock' = "none"
    /\ completed' = completed + 1
    /\ dpc' = [dpc EXCEPT ![c] = "done"]
    /\ UNCHANGED <<read_profit, sent>>
    /\ UNCHANGED <<execVars, scanVars, mainVars, notifyVars, calcVars>>

\* run_multiple_strategies, one step of it.  From state.lock() to the
\* .await of tokio::join!: the guard `status` is taken and kept, the status
\* is set and the two run_strategy tasks are spawned.  From the end of the
\* join to the return: the status is set, profit is locked for the reply and
\* the guards are dropped.
RunMultipleStrategies ==
    /\ CASE dpc["run_multiple"] = "lock_status" ->
                /\ LockFree(status_lock)
                /\ status_lock' = "run_multiple"
                /\ dash_status' = "Running multiple strategies"
                /\ dpc' = [c \in DashCalls |->
                              IF c \in SpawnedTasks THEN "lock_status"
                              ELSE IF c = "run_multiple" THEN "join"
                              ELSE dpc[c]]
         [] dpc["run_multiple"] = "join" ->
                /\ \A c \in SpawnedTasks : dpc[c] = "done"
                /\ LockFree(profit_lock)
                /\ status_lock' = "none"
                /\ dash_status' = "Multiple strategies completed"
                /\ dpc' = [dpc EXCEPT !["run_multiple"] = "done"]
         [] OTHER -> FALSE
    /\ UNCHANGED <<dash_profit, profit_lock, read_profit, completed, sent>>
    /\ UNCHANGED <<execVars, scanVars, mainVars, notifyVars, calcVars>>

\* handle_websocket: rx.next().await delivers a message of the client.
WsMessage ==
    /\ dpc["websocket"] = "wait"
    /\ dpc' = [dpc EXCEPT !["websocket"] = "read_status"]
    /\ UNCHANGED <<dash_status, dash_profit, status_lock, profit_lock,
                   read_profit, completed, sent>>
    /\ UNCHANGED <<execVars, scanVars, mainVars, notifyVars, calcVars>>

\* handle_websocket: let status = state.lock().unwrap().clone();
WsReadStatus ==
    /\ dpc["websocket"] = "read_status"
    /\ LockFree(status_lock)
    /\ sent' = [sent EXCEPT !.status = dash_status]
    /\ dpc' = [dpc EXCEPT !["websocket"] = "read_profit"]
    /\ UNCHANGED <<dash_status, dash_profit, status_lock, profit_lock,
                   read_profit, completed>>
    /\ UNCHANGED <<execVars, scanVars, mainVars, notifyVars, calcVars>>

\* handle_websocket: let profit_value = *profit.lock().unwrap(); the message
\* is built and sent; a failed send leaves the loop.
WsReadProfit(outcome) ==
    /\ dpc["websocket"] = "read_profit"
    /\ LockFree(profit_lock)
    /\ sent' = [sent EXCEPT !.profit = dash_profit]
    /\ dpc' = [dpc EXCEPT !["websocket"] = IF outcome = "ok" THEN "wait" ELSE "closed"]
    /\ UNCHANGED <<dash_status, dash_profit, status_lock, profit_lock,
                   read_profit, completed>>
    /\ UNCHANGED <<execVars, scanVars, mainVars, notifyVars, calcVars>>

DashNext ==
    \/ \E c \in DashCalls : DashRequest(c)
    \/ \E c \in DashCalls : RunStrategyLockStatus(c)
    \/ \E c \in DashCalls : RunStrategyWake(c)
    \/ \E c \in DashCalls : RunStrategyLockProfit(c)
    \/ \E c \in DashCalls : RunStrategyAdd(c)
    \/ RunMultipleStrategies
    \/ WsMessage
    \/ WsReadStatus
    \/ \E o \in ReadOutcomes : WsReadProfit(o)

SpecDash == DashInit /\ [][DashNext]_vars

----------------------------------------------------------------------------
(* The notifications of the monitoring module, next to the trading path.   *)
(* No function of the strategy modules or of main calls                    *)
(* send_email_notification or send_sms_notification, and main does not     *)
(* declare the module: a notification is a call of its own, made by        *)
(* whoever uses the monitoring module.  npc is its position: "send" before *)
(* a delivery attempt, "sleep" in sleep(5 s) after a failed one, "done".   *)

\* for _ in 0..3
NotifyAttempts == 3

NotifyChannels == {"email", "sms"}

\* send_email_notification(subject, body) / send_sms_notification(body) is
\* called: the configuration is loaded and the message built.
NotifyStart(ch) ==
    /\ npc = "none"
    /\ npc' = "send"
    /\ channel' = ch
    /\ UNCHANGED <<nattempt, nresult>>
    /\ UNCHANGED <<execVars, scanVars, mainVars, dashVars, calcVars>>

\* One turn of the loop: mailer.send(&email) / OutboundMessage::send();
\* Ok returns Ok(()), a failure is logged and followed by sleep(5 s).
NotifySend(outcome) ==
    /\ npc = "send"
    /\ nattempt' = nattempt + 1
    /\ IF outcome = "ok"
       THEN /\ npc' = "done"
            /\ nresult' = "Ok"
       ELSE /\ npc' = "sleep"
            /\ UNCHANGED nresult
    /\ UNCHANGED channel
    /\ UNCHANGED <<execVars, scanVars, mainVars, dashVars, calcVars>>

\* sleep(Duration::from_secs(5)) is over: the next turn, or after the last
\* one Err(EmailError) / Err(TwilioError).
NotifyWake ==
    /\ npc = "sleep"
    /\ IF nattempt < NotifyAttempts
       THEN /\ npc' = "send"
            /\ UNCHANGED nresult
       ELSE /\ npc' = "done"
            /\ nresult' = "Err"
    /\ UNCHANGED <<channel, nattempt>>
    /\ UNCHANGED <<execVars, scanVars, mainVars, dashVars, calcVars>>

NotifyNext ==
    \/ \E ch \in NotifyChannels : NotifyStart(ch)
    \/ \E o \in ReadOutcomes : NotifySend(o)
    \/ NotifyWake

\* The trading path as main runs it: the *_with_retry loops with
\* max_retries = 3, and the execute_* operations.
MainRetries == 3

TradingNext ==
    \/ \E s \in RetryOps, amt \in LoanAmounts : StartWithRetry(s, MainRetries, amt)
    \/ WakeAndDouble
    \/ \E o \in CallOutcomes, out \in TradeOutputs : ArbitragePerformTrade(o, out)
    \/ \E o \in CallOutcomes : ExecuteFlashloan(o)
    \/ \E o \in CallOutcomes : ExecuteFrontrunning(o)
    \/ \E o \in CallOutcomes : SandwichFrontRun(o)
    \/ \E o \in CallOutcomes : SandwichBackRun(o)
    \/ ExecuteLiquidation
    \/ StartHft
    \/ \E o \in CallOutcomes : HftRequestFlashLoan(o)
    \/ \E o \in CallOutcomes : HftExecuteTrade(o)

SpecNotify == Init /\ [][TradingNext \/ NotifyNext]_vars

----------------------------------------------------------------------------
(* 256-bit arithmetic.  A U256 is written as its U256Limbs digits in base  *)
(* LimbBase, least significant first (32 digits of 8 bits; the four 64-bit *)
(* words of the source do not fit the integers of the model checker).      *)
(* The operators +, * of U256 panic when the result does not fit 256 bits; *)
(* saturating_sub clamps at zero.                                          *)

LimbBase == 256
U256Limbs == 32

\* U256::from(n) for an n below 2^31.
U256From(n) ==
    [i \in 1 .. U256Limbs |-> IF i > 4 THEN 0 ELSE (n \div LimbBase^(i - 1)) % LimbBase]

\* The U256 2^k, k < 256.
U256Pow2(k) ==
    [i \in 1 .. U256Limbs |-> IF i = (k \div 8) + 1 THEN 2^(k % 8) ELSE 0]

\* U256::MAX = 2^256 - 1.
U256Max == [i \in 1 .. U256Limbs |-> LimbBase - 1]

\* The digits of the number whose digit sums, before any carry, are d[1..n]:
\* n + 1 digits, the last being the carry out of position n.
Carried(d, n) ==
    LET carry[i \in 1 .. n + 1] ==
            IF i = 1 THEN 0 ELSE (d[i - 1] + carry[i - 1]) \div LimbBase
    IN  [i \in 1 .. n + 1 |->
            IF i = n + 1 THEN carry[i] ELSE (d[i] + carry[i]) % LimbBase]

\* U256::overflowing_add: the low 256 bits of the sum and the overflow flag.
OverflowingAdd(a, b) ==
    LET sum == Carried([i \in 1 .. U256Limbs |-> a[i] + b[i]], U256Limbs)
    IN  [value |-> [i \in 1 .. U256Limbs |-> sum[i]],
         overflow |-> sum[U256Limbs + 1] # 0]

\* The sum of a[i] * b[k + 1 - i] over the i from `from` on that have a
\* partner digit.
RECURSIVE DigitProducts(_, _, _, _)
DigitProducts(a, b, k, from) ==
    IF from > U256Limbs \/ from > k THEN 0
    ELSE (IF k + 1 - from <= U256Limbs THEN a[from] * b[k + 1 - from] ELSE 0)
         + DigitProducts(a, b, k, from + 1)

\* U256::overflowing_mul: the low 256 bits of the product and the overflow flag.
OverflowingMul(a, b) ==
    LET product == Carried([k \in 1 .. 2 * U256Limbs |-> DigitProducts(a, b, k, 1)],
                           2 * U256Limbs)
    IN  [value |-> [i \in 1 .. U256Limbs |-> product[i]],
         overflow |-> \E i \in U256Limbs + 1 .. 2 * U256Limbs + 1 : product[i] # 0]

\* a > b on U256: the most significant digit in which they differ decides.
U256Gt(a, b) ==
    \E i \in 1 .. U256Limbs :
        /\ a[i] > b[i]
        /\ \A j \in i + 1 .. U256Limbs : a[j] = b[j]

\* U256::saturating_sub: a - b, or zero when b > a.  a - b is a plus the
\* complement of b plus one, less 2^256.
U256SaturatingSub(a, b) ==
    IF U256Gt(b, a) THEN U256From(0)
    ELSE LET difference ==
                 Carried([i \in 1 .. U256Limbs |->
                             a[i] + (LimbBase - 1 - b[i]) + (IF i = 1 THEN 1 ELSE 0)],
                         U256Limbs)
         IN  [i \in 1 .. U256Limbs |-> difference[i]]

----------------------------------------------------------------------------
(* The functions without state: one of them is applied to its arguments.   *)
(* ret is <<>> before the return and then <<"returns", v>> for a plain     *)
(* value, <<"Ok", v>> or <<"Err", e>> for a Result, <<"panic">> for a      *)
(* panic.                                                                  *)

\* The 256-bit amounts the functions are applied to.
U256Samples ==
    {U256From(0), U256From(1), U256From(GAS_FEES), U256Pow2(64), U256Pow2(128),
     U256Pow2(255), U256Max}

\* "<literal>".parse::<H160>(): the 20 bytes the hexadecimal digits after
\* "0x" spell, in whichever case they are written.  An H160 is written here
\* as its 40 digits in lower case.
ParseH160 ==
    [literal \in {"0xEeeeeEeeeEeEeeEeEeEeeEEEeeeeEeeeeeeeEEeE",
                  "0x5f4ec3df9cbd43714fe2740f5e3616155c5b8419",
                  "0x6B175474E89094C44Da98b954EedeAC495271d0F",
                  "0xAed0c38402a5d19df6E4c03F4E2DceD6e29c1ee9",
                  "0xA0b86991c6218b36c1d19D4a2e9Eb0cE3606EB48",
                  "0x8fFfFfd4AfB6115b954Bd326cbe7B4BA576818f6"} |->
        CASE literal = "0xEeeeeEeeeEeEeeEeEeEeeEEEeeeeEeeeeeeeEEeE" ->
                 "eeeeeeeeeeeeeeeeeeeeeeeeeeeeeeeeeeeeeeee"
          [] literal = "0x5f4ec3df9cbd43714fe2740f5e3616155c5b8419" ->
                 "5f4ec3df9cbd43714fe2740f5e3616155c5b8419"
          [] literal = "0x6B175474E89094C44Da98b954EedeAC495271d0F" ->
                 "6b175474e89094c44da98b954eedeac495271d0f"
          [] literal = "0xAed0c38402a5d19df6E4c03F4E2DceD6e29c1ee9" ->
                 "aed0c38402a5d19df6e4c03f4e2dced6e29c1ee9"
          [] literal = "0xA0b86991c6218b36c1d19D4a2e9Eb0cE3606EB48" ->
                 "a0b86991c6218b36c1d19d4a2e9eb0ce3606eb48"
          [] literal = "0x8fFfFfd4AfB6115b954Bd326cbe7B4BA576818f6" ->
                 "8fffffd4afb6115b954bd326cbe7b4ba576818f6"]

\* The assets get_chainlink_price_feed_address is asked about: ETH, DAI,
\* USDC, WBTC, the zero address, and the address of the ETH price feed.
AssetSamples ==
    {"eeeeeeeeeeeeeeeeeeeeeeeeeeeeeeeeeeeeeeee",
     "6b175474e89094c44da98b954eedeac495271d0f",
     "a0b86991c6218b36c1d19d4a2e9eb0ce3606eb48",
     "2260fac5e5542a773aa44fbcfedf7c193bc2c599",
     "0000000000000000000000000000000000000000",
     "5f4ec3df9cbd43714fe2740f5e3616155c5b8419"}

\* An asset without an arm of its own makes the function panic.
GetChainlinkPriceFeedAddressOrPanic(asset) ==
    CASE asset = ParseH160["0xEeeeeEeeeEeEeeEeEeEeeEEEeeeeEeeeeeeeEEeE"] ->
             <<"Ok", ParseH160["0x5f4ec3df9cbd43714fe2740f5e3616155c5b8419"]>>
      [] asset = ParseH160["0x6B175474E89094C44Da98b954EedeAC495271d0F"] ->
             <<"Ok", ParseH160["0xAed0c38402a5d19df6E4c03F4E2DceD6e29c1ee9"]>>
      [] asset = ParseH160["0xA0b86991c6218b36c1d19D4a2e9Eb0cE3606EB48"] ->
             <<"Ok", ParseH160["0x8fFfFfd4AfB6115b954Bd326cbe7B4BA576818f6"]>>
      [] OTHER -> <<"panic">>

\* LiquidationBot::get_chainlink_price_feed_address(&self, asset)
GetChainlinkPriceFeedAddress(asset) ==
    CASE asset = ParseH160["0xEeeeeEeeeEeEeeEeEeEeeEEEeeeeEeeeeeeeEEeE"] ->
             <<"Ok", ParseH160["0x5f4ec3df9cbd43714fe2740f5e3616155c5b8419"]>>
      [] asset = ParseH160["0x6B175474E89094C44Da98b954EedeAC495271d0F"] ->
             <<"Ok", ParseH160["0xAed0c38402a5d19df6E4c03F4E2DceD6e29c1ee9"]>>
      [] asset = ParseH160["0xA0b86991c6218b36c1d19D4a2e9Eb0cE3606EB48"] ->
             <<"Ok", ParseH160["0x8fFfFfd4AfB6115b954Bd326cbe7B4BA576818f6"]>>
      [] OTHER -> <<"Err", "Unsupported asset">>

\* sandwich::is_profitable(flashloan_amount, gas_fee, expected_profit):
\* expected_profit > (flashloan_amount + gas_fee)
IsProfitableSandwich(flashloan_amount, gas_fee, expected_profit) ==
    LET total_cost == OverflowingAdd(flashloan_amount, gas_fee)
    IN  IF total_cost.overflow THEN <<"panic">>
        ELSE <<"returns", U256Gt(expected_profit, total_cost.value)>>

\* LiquidationBot::calculate_liquidation_profit, once the price is read:
\* collateral_price * debt_covered, then saturating_sub(debt_covered).
CalculateLiquidationProfit(collateral_price, debt_covered) ==
    LET seized_collateral_value == OverflowingMul(collateral_price, debt_covered)
    IN  IF seized_collateral_value.overflow THEN <<"panic">>
        ELSE <<"Ok", U256SaturatingSub(seized_collateral_value.value, debt_covered)>>

\* U256::low_u64: the least significant 64 bits.
LowU64(x) == [i \in 1 .. U256Limbs |-> IF i <= 8 THEN x[i] ELSE 0]

\* The f64 nearest to the number x (ties to even): an f64 holds 53
\* significant bits.  x is below 2^66, so at most 13 low bits are rounded
\* away.  f64 values are written in halves, so that a product with the
\* factor 0.5 is a whole number of them; the rounding is the same on halves
\* as on units.
RoundToF64(x) ==
    IF x = U256From(0) THEN x
    ELSE LET top == CHOOSE i \in 1 .. U256Limbs :
                        x[i] # 0 /\ \A j \in i + 1 .. U256Limbs : x[j] = 0
             bits == 8 * (top - 1)
                     + (CHOOSE b \in 1 .. 8 : 2^(b - 1) <= x[top] /\ x[top] < 2^b)
             s == bits - 53
             low == x[1] + LimbBase * x[2] + LimbBase * LimbBase * x[3]
             dropped == low % 2^s
             kept_is_odd == (low \div 2^s) % 2 = 1
             up == dropped > 2^(s - 1) \/ (dropped = 2^(s - 1) /\ kept_is_odd)
         IN  IF bits <= 53 THEN x
             ELSE OverflowingAdd(U256SaturatingSub(x, U256From(dropped)),
                                 U256From(IF up THEN 2^s ELSE 0)).value

\* `h as u64` for an f64 of h halves, h >= 0: the fraction is dropped and a
\* value of 2^64 or more becomes u64::MAX.
F64AsU64(h) ==
    LET u64_max == [i \in 1 .. U256Limbs |-> IF i <= 8 THEN LimbBase - 1 ELSE 0]
    IN  IF U256Gt(h, OverflowingAdd(u64_max, OverflowingAdd(u64_max, U256From(1)).value).value)
        THEN u64_max
        ELSE [i \in 1 .. U256Limbs |->
                 (h[i] \div 2) + (IF i < U256Limbs THEN (h[i + 1] % 2) * (LimbBase \div 2) ELSE 0)]

\* x as f64 * slippage_factor, in halves, for slippage = halves / 2: the
\* factors 1.0, 0.5 and 0.0 multiply without rounding.
TimesSlippageFactor(x, halves) ==
    CASE halves = 0 -> OverflowingAdd(RoundToF64(x), RoundToF64(x)).value
      [] halves = 1 -> RoundToF64(x)
      [] halves = 2 -> U256From(0)

\* calculate_dynamic_loan_amount(expected_profit, gas_fee, slippage) of the
\* arbitrage and flashloan modules, slippage = halves / 2.
CalculateDynamicLoanAmount(expected_profit, gas_fee, halves) ==
    LET max_loan_amount == F64AsU64(TimesSlippageFactor(LowU64(expected_profit), halves))
    IN  U256SaturatingSub(max_loan_amount, gas_fee)

\* sandwich::calculate_dynamic_loan_amount(amount_in, gas_fee, slippage,
\* min_profit), slippage = halves / 2.  A negative f64 becomes 0 as u64.
CalculateDynamicLoanAmountSandwich(amount_in, gas_fee, halves, min_profit) ==
    LET estimated_profit == TimesSlippageFactor(LowU64(amount_in), halves)
        gas == TimesSlippageFactor(LowU64(gas_fee), 0)
        max_loan_amount ==
            IF U256Gt(gas, estimated_profit) THEN U256From(0)
            ELSE F64AsU64(RoundToF64(U256SaturatingSub(estimated_profit, gas)))
    IN  IF U256Gt(min_profit, max_loan_amount) THEN min_profit ELSE max_loan_amount

\* The amounts and slippages the loan calculations are applied to; each
\* amount has at most 53 significant bits in its low 64 bits or is u64::MAX.
LoanSamples ==
    {U256From(0), U256From(1), U256From(GAS_FEES), U256From(1000001),
     U256Pow2(64), OverflowingAdd(U256Pow2(64), U256From(GAS_FEES)).value,
     U256SaturatingSub(U256Pow2(64), U256From(1)), U256Pow2(128)}
SlippageHalves == {0, 1, 2}

\* A function and the arguments of its call.
CalcInit ==
    /\ ExecIdle
    /\ ScanIdle
    /\ MainIdle
    /\ DashIdle
    /\ NotifyIdle
    /\ ret = <<>>
    /\ \/ /\ callee = "get_chainlink_price_feed_address"
          /\ args \in {<<asset>> : asset \in AssetSamples}
       \/ /\ callee = "sandwich::is_profitable"
          /\ args \in U256Samples \X U256Samples \X U256Samples
       \/ /\ callee = "calculate_liquidation_profit"
          /\ args \in U256Samples \X U256Samples
       \/ /\ callee = "calculate_dynamic_loan_amount"
          /\ args \in LoanSamples \X LoanSamples \X SlippageHalves
       \/ /\ callee = "sandwich::calculate_dynamic_loan_amount"
          /\ args \in LoanSamples \X LoanSamples \X SlippageHalves
                       \X {U256From(1), U256From(GAS_FEES)}

ApplyGetChainlinkPriceFeedAddress ==
    /\ callee = "get_chainlink_price_feed_address"
    /\ ret = <<>>
    /\ ret' = GetChainlinkPriceFeedAddress(args[1])
    /\ UNCHANGED <<callee, args>>
    /\ UNCHANGED <<execVars, scanVars, mainVars, dashVars, notifyVars>>

ApplyIsProfitableSandwich ==
    /\ callee = "sandwich::is_profitable"
    /\ ret = <<>>
    /\ ret' = IsProfitableSandwich(args[1], args[2], args[3])
    /\ UNCHANGED <<callee, args>>
    /\ UNCHANGED <<execVars, scanVars, mainVars, dashVars, notifyVars>>

\* calculate_liquidation_profit(collateral_asset, debt_covered,
\* price_feed_address): self.get_asset_price(..).await? reads the price
\* args[1], or fails.
ApplyCalculateLiquidationProfit(outcome) ==
    /\ callee = "calculate_liquidation_profit"
    /\ ret = <<>>
    /\ ret' = IF outcome = "ok" THEN CalculateLiquidationProfit(args[1], args[2])
              ELSE <<"Err", "ContractError">>
    /\ UNCHANGED <<callee, args>>
    /\ UNCHANGED <<execVars, scanVars, mainVars, dashVars, notifyVars>>

ApplyCalculateDynamicLoanAmount ==
    /\ callee = "calculate_dynamic_loan_amount"
    /\ ret = <<>>
    /\ ret' = <<"returns", CalculateDynamicLoanAmount(args[1], args[2], args[3])>>
    /\ UNCHANGED <<callee, args>>
    /\ UNCHANGED <<execVars, scanVars, mainVars, dashVars, notifyVars>>

ApplyCalculateDynamicLoanAmountSandwich ==
    /\ callee = "sandwich::calculate_dynamic_loan_amount"
    /\ ret = <<>>
    /\ ret' = <<"returns",
                CalculateDynamicLoanAmountSandwich(args[1], args[2], args[3], args[4])>>
    /\ UNCHANGED <<callee, args>>
    /\ UNCHANGED <<execVars, scanVars, mainVars, dashVars, notifyVars>>

CalcNext ==
    \/ ApplyGetChainlinkPriceFeedAddress
    \/ ApplyIsProfitableSandwich
    \/ \E o \in ReadOutcomes : ApplyCalculateLiquidationProfit(o)
    \/ ApplyCalculateDynamicLoanAmount
    \/ ApplyCalculateDynamicLoanAmountSandwich

SpecCalc == CalcInit /\ [][CalcNext]_vars

----------------------------------------------------------------------------
(* Properties *)

\* An execution (one attempt, or one call of an operation without a retry
\* loop) has returned to its caller.
ExecutionEnded == pc \in {"done", "sleep"} /\ started > 0 /\ result \in {"none", "Ok", "Err"}

\* The steps of submission i of the log.
StepsOf(i) == log[i].steps

\* The submissions of the log that took effect on chain.
Applied == {i \in DOMAIN log : log[i].outcome = "ok"}

\* How often step name s occurs in the sequence q.
Count(q, s) == Cardinality({k \in DOMAIN q : q[k] = s})

\* C1: is_profitable(gain, cost) of the arbitrage, flashloan and
\* frontrunning modules returns a boolean, and returns true exactly when
\* gain > cost; equal values are rejected.
C1_ProfitableIffGainExceedsCost ==
    evalModule # "none" =>
        /\ accepted \in BOOLEAN
        /\ accepted <=> (gain > cost)

\* C1: is_profitable of the frontrunning module has been evaluated on a gain
\* equal to the cost, and has rejected it.
C1_EqualRejected ==
    /\ evalModule = "frontrunning"
    /\ gain = GAS_FEES
    /\ cost = GAS_FEES
    /\ accepted = FALSE

\* C2: a *_with_retry run that has ended performed at most max_retries
\* attempts, and when all max_retries attempts failed it returned
\* RetriesExceeded.
C2_RetriesExceededAfterCap ==
    (op \in RetryOps /\ pc = "done") =>
        (started <= max_retries /\ result \in {"Ok", "RetriesExceeded"}
            /\ (attempts = max_retries => result = "RetriesExceeded"))

\* The i-th delay of the run is 2^(i-1) seconds: as logarithms, i - 1.
DelaysDouble == \A i \in DOMAIN sleeps : sleeps[i] = i - 1

\* No delay of the run is shorter than the one before it.
DelaysNonDecreasing == \A i \in DOMAIN sleeps : i > 1 => sleeps[i] >= sleeps[i - 1]

\* A run with max_retries = 3 whose three attempts failed made exactly three
\* attempts, slept 1, 2 and 4 seconds and returned RetriesExceeded.
ThreeFailuresScenario ==
    (op \in RetryOps /\ pc = "done" /\ max_retries = 3 /\ attempts = 3) =>
        (started = 3 /\ sleeps = <<0, 1, 2>> /\ result = "RetriesExceeded")

\* C3: the delays of one run are 1, 2, 4, .. and never decrease, and three
\* failures with max_retries = 3 give the delays 1, 2, 4 and RetriesExceeded.
C3_BackoffDoubles == DelaysDouble /\ DelaysNonDecreasing /\ ThreeFailuresScenario

\* The delays of the run stay at or below cap, and once a delay equals cap
\* the next one equals it too (doubling has stopped).
CappedAt(cap) ==
    \A i \in DOMAIN sleeps :
        sleeps[i] <= cap /\ ((sleeps[i] = cap /\ i < Len(sleeps)) => sleeps[i + 1] = cap)

\* C4: the delays of one run never exceed a maximum delay, and doubling
\* stops once the maximum is reached.  The maximum may be any u64 power of
\* two; the source names none.
C4_DelayCapped == \E cap \in 0..(DelayBits - 1) : CappedAt(cap)

\* The executions the claim C5 lists as using borrowed capital.
FundedOps == {"hft", "sandwich", "liquidation", "flashloan"}

\* C5: an execution with borrowed capital that has ended, with everything it
\* submitted in effect on chain, made one submission, whose steps hold
\* exactly one borrow, as the first step, and exactly one repay, as the last.
C5_OneBorrowOneRepay ==
    (op \in FundedOps /\ ExecutionEnded /\ Len(log) > 0 /\ Applied = DOMAIN log) =>
        /\ Len(log) = 1
        /\ Count(StepsOf(1), "borrow") = 1
        /\ Count(StepsOf(1), "repay") = 1
        /\ StepsOf(1)[1] = "borrow"
        /\ StepsOf(1)[Len(StepsOf(1))] = "repay"

\* C6: the borrow never reaches the chain client in another submission than
\* the trade that spends it or the repayment, and an HFT or sandwich
\* execution makes a single submission.
C6_NoSeparateBorrow ==
    /\ \A i \in DOMAIN log : \A j \in DOMAIN log :
          (i # j /\ Count(StepsOf(i), "borrow") > 0) =>
              /\ Count(StepsOf(j), "trade") = 0
              /\ Count(StepsOf(j), "repay") = 0
    /\ op \in {"hft", "sandwich"} => Len(log) <= 1

\* The number of steps of the plan of each multi-step execution.
PlanSteps == [sandwich |-> 2, arbitrage |-> 3, hft |-> 2]

\* C7: when a multi-step execution has ended, either every step of its plan
\* has taken effect on chain or none has.
C7_AllOrNothing ==
    (op \in DOMAIN PlanSteps /\ ExecutionEnded) =>
        \/ Applied = {}
        \/ Cardinality(Applied) = PlanSteps[op]

\* C8: no attempt of a *_with_retry run is started after an attempt that
\* ended in an on-chain revert.
C8_RevertNotRetried ==
    (op \in RetryOps /\ pc = "exec") => lastErr # "revert"

\* C9: every submission is preceded by a dry run (a query) of the same
\* steps, and no submission comes back reverted from an unchanged chain
\* state without the plan having been abandoned before it was sent.
C9_SimulatedBeforeSubmission ==
    \A i \in DOMAIN log :
        log[i].kind = "call" =>
            \E j \in 1..(i - 1) :
                /\ log[j].kind = "query"
                /\ log[j].steps = log[i].steps

\* C10: every attempt of a sandwich run carries the deadline fixed in the
\* first attempt, and no attempt is running after that deadline.
C10_DeadlineFixed ==
    (op = "sandwich" /\ pc = "exec") =>
        /\ deadline = planDeadline
        /\ now <= planDeadline

\* C12: the attempts of one *_with_retry run are strictly sequential: while
\* attempt N+1 is running, the N attempts before it have all ended and each
\* was followed by its backoff wait; while a wait is under way no attempt is
\* running.
C12_AttemptsSequential ==
    op \in RetryOps =>
        /\ pc = "exec" => (started = attempts + 1 /\ Len(sleeps) = attempts)
        /\ pc = "sleep" => (started = attempts /\ Len(sleeps) = attempts)

\* C12: the second attempt of a run is under way, after one failed attempt
\* and one wait of one second.
C12_SecondAttemptAfterWait ==
    op \in RetryOps /\ pc = "exec" /\ started = 2 /\ attempts = 1 /\ sleeps = <<0>>

\* The place of task t in the order of acceptance of this round.
AcceptedAt(t) == CHOOSE k \in DOMAIN acceptedOrder : acceptedOrder[k] = t

\* The chain client receives the submissions of the tasks in the order in
\* which is_profitable accepted the tasks.
InAcceptanceOrder ==
    \A i \in DOMAIN chain : \A j \in DOMAIN chain :
        i < j => AcceptedAt(chain[i].task) <= AcceptedAt(chain[j].task)

\* No submission of another task lies between two submissions of one task.
NeverInterleaved ==
    \A i \in DOMAIN chain : \A j \in DOMAIN chain : \A k \in DOMAIN chain :
        (i < j /\ j < k /\ chain[i].task = chain[k].task) =>
            chain[j].task = chain[i].task

C13_FailedPollDoesNotEndLoop ==
    spc = "returned" => (lastPoll # "failed" /\ lastExec # "failed")

\* C14: a scan loop whose last read succeeded has not returned: it goes on
\* to produce further candidates once it has detected one.
C14_ScannerNeverTerminates ==
    lastPoll \notin {"failed", "closed"} => spc # "returned"

\* The tasks of this round that have reached execute_multi_leg_arbitrage.
Executing ==
    {t \in DOMAIN tasks :
        tasks[t].pc \in {"leg1", "leg2", "leg3"}
            \/ \E i \in DOMAIN chain : chain[i].task = t}

\* C17: a scan loop awaits the execution of a candidate only when the gain
\* of the candidate exceeds its cost, that is when is_profitable returned
\* true for it; a candidate of gain 100 and cost 300 is not executed.
C17_ExecutedOnlyIfProfitable ==
    /\ spc = "exec" /\ scanner \in {"scan_for_flashloan_opportunities", "monitor_mempool"}
          => WideGt(candGain, candCost)
    /\ \A t \in Executing : tasks[t].gain > GAS_FEES

\* C17: monitor_mempool has evaluated a candidate of gain 100 against the
\* cost 300 and has gone on without executing anything in this poll.
C17_UnprofitableSkipped ==
    /\ scanner = "monitor_mempool"
    /\ candGain = WideFrom(100)
    /\ candCost = WideFrom(300)
    /\ spc = "sleep"
    /\ lastExec = "none"

\* The tasks of this round whose three trades were all submitted and that
\* returned Ok(()).
Confirmed ==
    {t \in DOMAIN tasks :
        /\ tasks[t].pc = "Ok"
        /\ \E i \in DOMAIN chain : chain[i] = [task |-> t, leg |-> "leg3"]}

\* What a task reports when it succeeds: Ok(()) carries nothing, and the
\* amount in the log ("Trade executed: ..") is the output of its last trade.
Reported(t) == tasks[t].amount

C15_FailureIsolated ==
    (mpc \in {"returned", "panicked"} /\ (enabled \cap Strategies) \subseteq configOk)
        => (enabled \cap Strategies) \subseteq Range(ran)

\* C16: execute_hft returns success exactly when both its flash-loan request
\* and its trade succeeded, and an error whenever one of them failed.
C16_HftReportsFailure ==
    (op = "hft" /\ pc = "done") =>
        (result = "Ok" <=> (Len(log) = 2 /\ Applied = DOMAIN log))

\* C19: in a run of execute_frontrunning_with_retry every attempt after the
\* first bids a gas price above that of the attempt before it.
C19_BidsIncrease ==
    [][(op = "frontrunning" /\ started > 0 /\ started' = started + 1)
          => gas_price' > gas_price]_vars

\* A step in which the run sends a submission to the chain client: it
\* enters an attempt, whose first contract call goes out, or goes on to the
\* next contract call of the attempt.
Submits == pc' = "exec" /\ (started' > started \/ step' > step)

\* C20: a front-running or sandwich run sends a submission only while the
\* transaction it was built on is still pending: it re-checks the
\* transaction before each submission, retries included, and abandons the
\* plan once the transaction has left the mempool.
C20_NoSubmissionOnceSubjectGone ==
    [][(op' \in SubjectOps /\ Submits) => subject' = "pending"]_vars

\* C21: a pending transaction leads to at most one call of
\* execute_frontrunning, in however many polls of monitor_mempool it is seen.
C21_ActedOnAtMostOnce ==
    \A h \in TxHashes : frontrunCalls[h] <= 1

\* The slippage allowance the claim C30 speaks of: 1% of the gain.
SlippageAllowance(v) == v \div 100

\* C30: monitor_mempool executes a pending transaction of value v above
\* threshold_amount if and only if v less the 1% slippage allowance strictly
\* exceeds gas_fee_limit, the gas cost being counted once.
C30_ExecutesIffNetGainExceedsCost ==
    [][(/\ scanner = "monitor_mempool"
        /\ spc = "scan"
        /\ mempool # <<>>
        /\ TxValueOf[Head(mempool)] > ThresholdAmount)
       => LET v == TxValueOf[Head(mempool)]
          IN  (spc' = "exec") <=> (v - SlippageAllowance(v) > GasFeeLimit)]_vars

\* C22: when the configuration of some enabled strategy cannot be loaded, no
\* enabled strategy is executed.
C22_ConfigCheckedBeforeAnyStart ==
    ~((enabled \cap Strategies) \subseteq configOk) => ran = <<>>

\* C23: a strategy that is being awaited keeps no other enabled strategy
\* from starting: whenever main awaits one strategy and another is still
\* to come, that one can start.
C23_StartNotBlockedByRunning ==
    (running # "none" /\ pendingRun # {})
        => ENABLED (\E s \in pendingRun : MainStartStrategy(s))

\* The points at which a call of the dashboard is suspended.
SuspensionPoints == {"sleep", "join"}

\* run_multiple_strategies awaits its two tasks, which wait for the guard
\* it holds: no step of any of the three is possible any more.
MultipleStuck ==
    /\ dpc["run_multiple"] = "join"
    /\ status_lock = "run_multiple"
    /\ \A c \in SpawnedTasks : dpc[c] = "lock_status"

\* C24: the guard of `status` is not held across a suspension point, so
\* that handle_websocket can read the status while a strategy runs, and no
\* call of run_multiple_strategies is left unable to complete.
C24_NoLockAcrossSuspensionNoDeadlock ==
    /\ \A c \in DOMAIN dpc : dpc[c] \in SuspensionPoints => status_lock # c
    /\ ~MultipleStuck

\* C25: under every interleaving of run_strategy calls the profit is 100
\* times the number of calls that have returned, and what handle_websocket
\* has read is a multiple of 100.
C25_NoLostIncrement ==
    /\ dash_profit = 100 * completed
    /\ sent.profit % 100 = 0

\* C25, its case: a second call of run_strategy waits for the first, two
\* calls have returned before, and handle_websocket has read their sum.
C25_TwoRunsObserved ==
    /\ dpc["run_arbitrage"] = "sleep"
    /\ dpc["run_flashloan"] = "lock_status"
    /\ completed = 2
    /\ sent.profit = 200

\* C26: the trading path never waits for a notification and its outcome
\* does not depend on one: whatever send_email_notification or
\* send_sms_notification is doing, an execution or retry loop that is under
\* way can take its next step, and an execution none of whose attempts
\* failed returns Ok even when the notification has failed.
C26_TradingPathNeverWaitsForNotification ==
    /\ pc \in {"exec", "sleep"} => ENABLED TradingNext
    /\ (pc = "done" /\ lastErr = "none") => result = "Ok"

\* C26, its case: a notification is between two failed delivery attempts
\* while a retry loop sleeps before its next attempt.
C26_RetryDuringFailedNotification ==
    /\ npc = "sleep"
    /\ nattempt = 2
    /\ pc = "sleep"
    /\ op = "arbitrage"

\* C26, its other case: the execution has returned Ok after a retry and the
\* notification has failed for good.
C26_TradeOkNotificationFailed ==
    /\ nresult = "Err"
    /\ pc = "done"
    /\ result = "Ok"
    /\ started = 2

\* The assets with a price feed: ETH, DAI and USDC.
SupportedAssets ==
    {"eeeeeeeeeeeeeeeeeeeeeeeeeeeeeeeeeeeeeeee",
     "6b175474e89094c44da98b954eedeac495271d0f",
     "a0b86991c6218b36c1d19d4a2e9eb0ce3606eb48"}

\* C27: get_chainlink_price_feed_address returns Ok with a feed address for
\* exactly the three supported assets and an Err value, never a panic, for
\* every other asset.
C27_UnsupportedAssetIsAnError ==
    (callee = "get_chainlink_price_feed_address" /\ ret # <<>>) =>
        /\ ret[1] # "panic"
        /\ (ret[1] = "Ok") <=> (args[1] \in SupportedAssets)
        /\ (ret[1] = "Err") <=> (args[1] \notin SupportedAssets)
        /\ ret[1] = "Ok" => ret[2] \notin SupportedAssets

\* C27, its case: WBTC has no feed and the call has returned an error.
C27_WbtcRejected ==
    /\ callee = "get_chainlink_price_feed_address"
    /\ args = <<"2260fac5e5542a773aa44fbcfedf7c193bc2c599">>
    /\ ret = <<"Err", "Unsupported asset">>

\* C28: sandwich::is_profitable returns expected_profit > flashloan_amount +
\* gas_fee for all 256-bit arguments, and rejects the candidate, without a
\* panic, when the sum does not fit 256 bits.
C28_SandwichProfitabilityTotal ==
    (callee = "sandwich::is_profitable" /\ ret # <<>>) =>
        LET total == OverflowingAdd(args[1], args[2])
        IN  ret = <<"returns", ~total.overflow /\ U256Gt(args[3], total.value)>>

\* C29: calculate_liquidation_profit, given the price, returns
\* max(collateral_price * debt_covered - debt_covered, 0) and does not panic,
\* for all 256-bit collateral_price and debt_covered.
C29_LiquidationProfitTotal ==
    (callee = "calculate_liquidation_profit" /\ ret # <<>> /\ ret[1] # "Err") =>
        LET seized == OverflowingMul(args[1], args[2])
        IN  /\ ret[1] # "panic"
            /\ ~seized.overflow => ret = <<"Ok", U256SaturatingSub(seized.value, args[2])>>

----------------------------------------------------------------------------
(* The loan amounts.                                                       *)

\* expected_profit * (1 - slippage) for slippage = halves / 2, rounded down,
\* in exact 256-bit arithmetic.
ExactShare(x, halves) ==
    CASE halves = 0 -> x
      [] halves = 1 ->
            [i \in 1 .. U256Limbs |->
                (x[i] \div 2) + (IF i < U256Limbs THEN (x[i + 1] % 2) * (LimbBase \div 2) ELSE 0)]
      [] halves = 2 -> U256From(0)

\* C31: calculate_dynamic_loan_amount of the arbitrage and flashloan modules
\* returns max(floor(expected_profit * (1 - slippage)) - gas_fee, 0) for
\* every expected_profit of the 256-bit range, 2^64 and above included.
C31_LoanIsShareLessGasFee ==
    (callee = "calculate_dynamic_loan_amount" /\ ret # <<>>)
        => ret = <<"returns", U256SaturatingSub(ExactShare(args[1], args[3]), args[2])>>

\* C32: sandwich::calculate_dynamic_loan_amount returns at least min_profit,
\* and exactly min_profit when gas_fee is at least the slippage-adjusted
\* amount_in.
C32_SandwichLoanFlooredAtMinProfit ==
    (callee = "sandwich::calculate_dynamic_loan_amount" /\ ret # <<>>)
        => /\ ret[1] = "returns"
           /\ ~U256Gt(args[4], ret[2])
           /\ ~U256Gt(CASE args[3] = 0 -> OverflowingAdd(args[1], args[1]).value
                        [] args[3] = 1 -> args[1]
                        [] args[3] = 2 -> U256From(0),
                      OverflowingAdd(args[2], args[2]).value)
                 => ret[2] = args[4]

----------------------------------------------------------------------------
(* The retry loops, continued.                                             *)

\* C33: for every max_retries of 0 .. 255 and every sequence of failures,
\* neither the doubling of the backoff delay nor the attempt counter of a
\* retry loop leaves its integer type.
C33_BackoffAndCounterFit ==
    /\ attempts <= U8Max
    /\ (pc = "sleep" /\ op \in RetryOps) => ~DoubleOverflows(delay)

\* C34: with max_retries = 0 a retry loop makes no attempt and no wait and
\* returns RetriesExceeded.
C34_ZeroRetriesNoAttempt ==
    (op \in RetryOps /\ max_retries = 0 /\ pc # "idle")
        => /\ pc = "done"
           /\ result = "RetriesExceeded"
           /\ started = 0
           /\ attempts = 0
           /\ sleeps = <<>>
           /\ log = <<>>

\* A run with max_retries = 0 has returned.
C34_ZeroRetriesReturned ==
    op \in RetryOps /\ max_retries = 0 /\ pc = "done" /\ result = "RetriesExceeded"

\* C35: a retry loop stops at its first successful attempt.  attempts counts
\* the attempts that failed, so a run that returned Ok made exactly one
\* attempt that did not fail, the last one, within the first max_retries
\* attempts and with no wait after it; a run that ended in any other way made
\* no attempt that succeeded.
C35_StopsAtFirstSuccess ==
    (op \in RetryOps /\ pc = "done") =>
        /\ result = "Ok" =>
              /\ started = attempts + 1
              /\ started <= max_retries
              /\ Len(sleeps) = attempts
        /\ result # "Ok" => started = attempts
        /\ result = "RetriesExceeded" => attempts = max_retries

\* The second of at least three attempts succeeded and the run returned Ok.
C35_OkOnSecondAttempt ==
    /\ op \in RetryOps /\ pc = "done" /\ result = "Ok"
    /\ started = 2 /\ attempts = 1 /\ max_retries >= 3

----------------------------------------------------------------------------
(* The order of the calls inside one attempt.                              *)

C37_TradeOnlyAfterFlashLoan ==
    op = "hft" =>
        /\ \A i \in DOMAIN log :
              log[i].method = "swapExactTokensForTokens" =>
                  /\ i = 2
                  /\ log[1].method = "flashLoan"
                  /\ log[1].outcome = "ok"
        /\ (log # <<>> /\ log[1].outcome # "ok") => (Len(log) = 1 /\ pc = "done")

\* The trade of a run of execute_hft was issued after its flash loan.
C37_TradeIssuedAfterLoan ==
    /\ op = "hft" /\ Len(log) = 2
    /\ log[1].outcome = "ok" /\ log[2].method = "swapExactTokensForTokens"

\* C38: in every attempt of execute_sandwich_attack the back-run is
\* submitted only after the front-run of that attempt returned successfully,
\* and an attempt whose front-run failed submits no back-run.  log holds the
\* submissions of the current attempt.
C38_BackRunOnlyAfterFrontRun ==
    op = "sandwich" =>
        /\ \A i \in DOMAIN log :
              log[i].steps = <<"back_run">> =>
                  /\ i = 2
                  /\ log[1].steps = <<"front_run">>
                  /\ log[1].outcome = "ok"
        /\ (log # <<>> /\ log[1].outcome # "ok") =>
              (Len(log) = 1 /\ pc \in {"sleep", "done"} /\ result # "Ok")

\* The first attempt failed, and the second attempt submitted its back-run
\* after its own front-run.
C38_BackRunInSecondAttempt ==
    /\ op = "sandwich" /\ started = 2 /\ attempts = 1
    /\ Len(log) = 2 /\ log[2].steps = <<"back_run">>

----------------------------------------------------------------------------
(* What main runs.                                                         *)

\* C39: main runs only what the configuration selects.  In bot mode
\* "multi" / "all" a main that has ended has run exactly the strategies
\* whose "enabled" flag is true (a name without the flag and an unknown name
\* are not run); in an unrecognised bot mode no strategy is run and main
\* returns Ok.  The configurations of the enabled strategies all load.
C39_RunsExactlyTheSelection ==
    /\ (bot_mode \in {"multi", "all"} /\ mpc \in {"returned", "panicked"}
        /\ (enabled \cap Strategies) \subseteq configOk)
          => Range(ran) = {name \in Strategies : strategies[name] = "true"}
    /\ (bot_mode \in {"multi", "all"} /\ mpc # "none")
          => Range(ran) \subseteq {name \in Strategies : strategies[name] = "true"}
    /\ bot_mode = "invalid"
          => (ran = <<>> /\ running = "none" /\ mpc \in {"loop", "returned"})

====
